---- MODULE Spec2Model ----
(***************************************************************************)
(* Model of the datadiluvium generation pages.                             *)
(*                                                                         *)
(*   GeneratePage       (src/app/generate/page.tsx)   row-count inputs,    *)
(*                      confirmation modal, handleConfirmGenerate          *)
(*   GeneratedDataPage  (src/app/generated/page.tsx)  handleGenerateAgain  *)
(*   DataGeneratorRegistry (src/app/lib/generators/registry.ts)  get,      *)
(*                      getCompatibleGenerators                            *)
(*   booleanGenerator, foreignKeyGenerator  (lib/generators/basic.ts)      *)
(*   SchemaInput        (src/app/components/SchemaInput.tsx)  text area,   *)
(*                      file drop, Validate, processSchema                 *)
(*                                                                         *)
(* Both generation handlers are async functions whose only awaits are on   *)
(* generator.generate(...).  A run is modelled as a small program: one     *)
(* step per column visited by the first pass, one step per column visited  *)
(* by the second pass, and a final step that stores the dataset.           *)
(*                                                                         *)
(* Specifications:                                                         *)
(*   Spec         generation runs on the generate and generated pages      *)
(*   SpecRows     the row-count inputs under arbitrary texts               *)
(*   SpecPreview  the generate page with its sample preview                *)
(*   SpecCalls    direct calls of getCompatibleGenerators and of the       *)
(*                Boolean and Foreign Key generators                       *)
(*   SpecExtract  processSchema over a family of schema texts              *)
(*   SpecEditor   the schema editor: typing, file drops, buttons           *)
(***************************************************************************)
EXTENDS Integers, Sequences, FiniteSets, TLC

\* ------------------------------------------------------------------ bounds
\* Largest table row count for which a run is explored.
MaxRows == 2
\* Longest text typed into a row-count input.
MaxTextLen == 2
\* Longest type string (in tokens) passed to getCompatibleGenerators, apart
\* from the compatible-type entries themselves.
MaxTypeLen == 3
\* Most items (column definitions and table-level clauses) in one CREATE
\* TABLE statement of the schema texts processed.
MaxItems == 3

\* --------------------------------------------------------- program constants
\* useState<number>(10) of GeneratePage.rowCount
DefaultRowCount == 10
\* generator.generate(5) of the sample preview
SampleCount == 5
\* useState<number>(10) of SchemaInput.rowCount
EditorRowCount == 10
\* if (rowCount > 1000): larger datasets go to a file
FileThreshold == 1000
\* useState<number>(10) of GeneratedDataPage.rowsPerPage
DefaultRowsPerPage == 10
\* defaultOptions.trueWeight of the Boolean generator, 0.5, with probabilities
\* and random draws counted in quarters
DefaultTrueWeight == 2

\* A null cell of a generated row, and the undefined result of a failed lookup.
Null == "<null>"
\* An optional value: None is null / undefined / NaN, Some(x) is the value x.
None == << >>
Some(x) == << x >>

\* ------------------------------------------------------------------ catalog
\* Names registered by the DataGeneratorRegistry constructor, in order.
Catalog ==
  << "UUID", "First Name", "Last Name", "Email", "Timestamp",
     "Sequential Number", "Money Amount", "Phone Number", "Company Name",
     "Street Address", "Username", "Password", "Product Code", "Boolean",
     "Foreign Key", "Humidity", "Temperature",
     "Temperature (Celsius String)", "Temperature (Fahrenheit String)",
     "Time Range" >>

\* String.prototype.toLowerCase on the names that occur in the model.
ToLowerCase(s) ==
  CASE s = "UUID" -> "uuid"
    [] s = "First Name" -> "first name"
    [] s = "Last Name" -> "last name"
    [] s = "Email" -> "email"
    [] s = "Timestamp" -> "timestamp"
    [] s = "Sequential Number" -> "sequential number"
    [] s = "Money Amount" -> "money amount"
    [] s = "Phone Number" -> "phone number"
    [] s = "Company Name" -> "company name"
    [] s = "Street Address" -> "street address"
    [] s = "Username" -> "username"
    [] s = "Password" -> "password"
    [] s = "Product Code" -> "product code"
    [] s = "Boolean" -> "boolean"
    [] s = "Foreign Key" -> "foreign key"
    [] s = "Humidity" -> "humidity"
    [] s = "Temperature" -> "temperature"
    [] s = "Temperature (Celsius String)" -> "temperature (celsius string)"
    [] s = "Temperature (Fahrenheit String)" -> "temperature (fahrenheit string)"
    [] s = "Time Range" -> "time range"
    [] OTHER -> s

\* DataGeneratorRegistry.get: the first registered generator whose name
\* equals the key ignoring case, or undefined.
RegistryGet(name) ==
  LET hits == { i \in 1..Len(Catalog) : ToLowerCase(Catalog[i]) = ToLowerCase(name) }
  IN  IF hits = {} THEN Null
      ELSE Catalog[CHOOSE i \in hits : \A j \in hits : i <= j]

\* String(n) for the small numbers the model produces.
NumStr == << "1", "2", "3", "4", "5", "6", "7", "8", "9", "10", "11", "12" >>

\* Outcome of a generator call that throws.
Thrown(parts) == [ok |-> FALSE, values |-> << >>, error |-> parts]
\* Outcome of a generator call that returns.
Returned(vals) == [ok |-> TRUE, values |-> vals, error |-> << >>]

\* generator.generate(count) with no options, for the generator named g:
\* the set of results the call can produce.
\*   Sequential Number: startAt 1, step 1, no padding, rendered as strings.
\*   Boolean: one independent draw per value.
\*   Foreign Key: referencedValues defaults to [], so the call throws, with
\*     the default (empty) referencedTable and referencedColumn in the text.
\*   any other generator: one independent draw per value.
Generate(g, count) ==
  CASE g = "Sequential Number" ->
         { Returned([i \in 1..count |-> NumStr[1 + (i - 1) * 1]]) }
    [] g = "Boolean" ->
         { Returned(v) : v \in [1..count -> {"true", "false"}] }
    [] g = "Foreign Key" ->
         { Thrown(<< "", "" >>) }
    [] OTHER ->
         { Returned(v) : v \in [1..count -> {"x", "y"}] }

\* Math.random(): a draw from [0, 1), in quarters.
RandomDraws == { 0, 1, 2, 3 }

\* booleanGenerator.generate(count, options): options is None when omitted,
\* otherwise Some(record) whose trueWeight is None (undefined) or Some(w).
\*   finalOptions = { ...defaultOptions, ...options }
\*   Math.random() < (finalOptions.trueWeight || 0.5)      (0 is falsy)
BooleanGenerate(count, options) ==
  LET trueWeight == IF options = None THEN Some(DefaultTrueWeight)
                    ELSE options[1].trueWeight
      threshold  == IF trueWeight = None \/ trueWeight[1] = 0
                    THEN DefaultTrueWeight ELSE trueWeight[1]
  IN  { Returned([i \in 1..count |-> d[i] < threshold]) :
          d \in [1..count -> RandomDraws] }

\* Variant of ForeignKeyGenerate that fills with nulls when there is nothing
\* to draw from.
ForeignKeyGenerateLenient(count, options) ==
  LET final == IF options = None
               THEN [referencedTable |-> "", referencedColumn |-> "",
                     referencedValues |-> Some(<< >>)]
               ELSE options[1]
  IN  IF final.referencedValues = None \/ Len(final.referencedValues[1]) = 0
      THEN { Returned([i \in 1..count |-> Null]) }
      ELSE { Returned([i \in 1..count |-> final.referencedValues[1][d[i]]]) :
               d \in [1..count -> 1..Len(final.referencedValues[1])] }

\* foreignKeyGenerator.generate(count, options): options is None when
\* omitted, otherwise Some(record) whose referencedValues is None (undefined
\* or null) or Some(list).
\*   finalOptions = { ...defaultOptions, ...options }
ForeignKeyGenerate(count, options) ==
  LET final == IF options = None
               THEN [referencedTable |-> "", referencedColumn |-> "",
                     referencedValues |-> Some(<< >>)]
               ELSE options[1]
  IN  IF final.referencedValues = None \/ Len(final.referencedValues[1]) = 0
      THEN { Thrown(<< final.referencedTable, final.referencedColumn >>) }
      ELSE { Returned([i \in 1..count |-> final.referencedValues[1][d[i]]]) :
               d \in [1..count -> 1..Len(final.referencedValues[1])] }

\* ------------------------------------------------------------------- texts
\* A text is a sequence of tokens: words (runs of letters, digits and
\* underscores), single whitespace characters and single punctuation marks.
IsSpace(tok) == tok \in { " ", "\n" }

\* String.prototype.toUpperCase on a word (tokens without letters, and words
\* already in upper case, are unchanged).
UpperToken(tok) ==
  CASE tok = "number" -> "NUMBER"
    [] tok = "char" -> "CHAR"
    [] tok = "create" -> "CREATE"
    [] tok = "table" -> "TABLE"
    [] tok = "int" -> "INT"
    [] tok = "id" -> "ID"
    [] tok = "name" -> "NAME"
    [] tok = "price" -> "PRICE"
    [] tok = "qty" -> "QTY"
    [] tok = "pk" -> "PK"
    [] tok = "t" -> "T"
    [] tok = "u" -> "U"
    [] tok = "x" -> "X"
    [] tok = "idx" -> "IDX"
    [] OTHER -> tok

TextToUpperCase(text) == [k \in 1..Len(text) |-> UpperToken(text[k])]

RECURSIVE TrimStart(_)
TrimStart(text) ==
  IF text = << >> THEN << >>
  ELSE IF IsSpace(Head(text)) THEN TrimStart(Tail(text)) ELSE text

RECURSIVE TrimEnd(_)
TrimEnd(text) ==
  IF text = << >> THEN << >>
  ELSE IF IsSpace(text[Len(text)]) THEN TrimEnd(SubSeq(text, 1, Len(text) - 1))
  ELSE text

\* String.prototype.trim
Trim(text) == TrimEnd(TrimStart(text))

\* text.indexOf(tok), 1-based; 0 when tok does not occur
IndexOf(text, tok) ==
  LET hits == { k \in 1..Len(text) : text[k] = tok }
  IN  IF hits = {} THEN 0 ELSE CHOOSE k \in hits : \A j \in hits : k <= j

\* text.split(tok)[0]: the part before the first occurrence of tok
BeforeFirst(text, tok) ==
  IF IndexOf(text, tok) = 0 THEN text ELSE SubSeq(text, 1, IndexOf(text, tok) - 1)

\* text.lastIndexOf(tok), 1-based; 0 when tok does not occur
LastIndexOf(text, tok) ==
  LET hits == { k \in 1..Len(text) : text[k] = tok }
  IN  IF hits = {} THEN 0 ELSE CHOOSE k \in hits : \A j \in hits : k >= j

\* A token matched by \w+ : a word.
IsWord(tok) == ~IsSpace(tok) /\ tok \notin { "(", ")", ",", ";", "[", "]", "\"" }

RECURSIVE SkipSpaces(_, _)
\* the first position >= k of text that holds no whitespace, Len(text) + 1
\* when there is none
SkipSpaces(text, k) ==
  IF k > Len(text) \/ ~IsSpace(text[k]) THEN k ELSE SkipSpaces(text, k + 1)

RECURSIVE SkipNonSpaces(_, _)
\* the first position >= k of text that holds whitespace, Len(text) + 1 when
\* there is none
SkipNonSpaces(text, k) ==
  IF k > Len(text) \/ IsSpace(text[k]) THEN k ELSE SkipNonSpaces(text, k + 1)

RECURSIVE SplitOn(_, _)
\* text.split(sep)
SplitOn(text, sep) ==
  IF IndexOf(text, sep) = 0 THEN << text >>
  ELSE << SubSeq(text, 1, IndexOf(text, sep) - 1) >>
         \o SplitOn(SubSeq(text, IndexOf(text, sep) + 1, Len(text)), sep)

\* ---------------------------------------------------- compatible generators
\* compatibleTypes of each registered generator, in registration order.
CompatibleTypes ==
  <<
    \* UUID
    << << "CHAR" >>, << "VARCHAR" >>, << "VARCHAR2" >>, << "TEXT" >>,
       << "STRING" >>, << "UUID" >>, << "UNIQUEIDENTIFIER" >>,
       << "CHARACTER", " ", "VARYING" >> >>,
    \* First Name
    << << "CHAR" >>, << "VARCHAR" >>, << "VARCHAR2" >>, << "TEXT" >>,
       << "STRING" >>, << "NCHAR" >>, << "NVARCHAR" >>, << "NVARCHAR2" >>,
       << "NTEXT" >>, << "CHARACTER", " ", "VARYING" >> >>,
    \* Last Name
    << << "CHAR" >>, << "VARCHAR" >>, << "VARCHAR2" >>, << "TEXT" >>,
       << "STRING" >>, << "NCHAR" >>, << "NVARCHAR" >>, << "NVARCHAR2" >>,
       << "NTEXT" >>, << "CHARACTER", " ", "VARYING" >> >>,
    \* Email
    << << "VARCHAR" >>, << "VARCHAR2" >>, << "TEXT" >>, << "NVARCHAR" >>,
       << "NVARCHAR2" >>, << "CHARACTER", " ", "VARYING" >>, << "STRING" >> >>,
    \* Timestamp
    << << "TIMESTAMP" >>, << "DATETIME" >>, << "DATETIME2" >>,
       << "TIMESTAMP", " ", "WITH", " ", "TIME", " ", "ZONE" >>,
       << "TIMESTAMP", " ", "WITH", " ", "LOCAL", " ", "TIME", " ", "ZONE" >> >>,
    \* Sequential Number
    << << "NUMBER" >>, << "INT" >>, << "INTEGER" >>, << "BIGINT" >>,
       << "DECIMAL" >>, << "NUMERIC" >>, << "NUMBER", "(", "10", ")" >>,
       << "NUMBER", "(", "19", ",", "4", ")" >>,
       << "DECIMAL", "(", "10", ",", "2", ")" >> >>,
    \* Money Amount
    << << "NUMBER" >>, << "DECIMAL" >>, << "NUMERIC" >>, << "MONEY" >>,
       << "NUMBER", "(", "19", ",", "4", ")" >>,
       << "DECIMAL", "(", "10", ",", "2", ")" >>,
       << "NUMERIC", "(", "19", ",", "4", ")" >> >>,
    \* Phone Number
    << << "VARCHAR" >>, << "VARCHAR2" >>, << "CHAR" >>, << "TEXT" >>,
       << "CHARACTER", " ", "VARYING" >>, << "STRING" >> >>,
    \* Company Name
    << << "VARCHAR" >>, << "VARCHAR2" >>, << "TEXT" >>, << "NVARCHAR" >>,
       << "NVARCHAR2" >>, << "CHARACTER", " ", "VARYING" >>, << "STRING" >> >>,
    \* Street Address
    << << "VARCHAR" >>, << "VARCHAR2" >>, << "TEXT" >>, << "NVARCHAR" >>,
       << "NVARCHAR2" >>, << "CHARACTER", " ", "VARYING" >>, << "STRING" >> >>,
    \* Username
    << << "VARCHAR" >>, << "VARCHAR2" >>, << "TEXT" >>, << "NVARCHAR" >>,
       << "NVARCHAR2" >>, << "CHARACTER", " ", "VARYING" >>, << "STRING" >> >>,
    \* Password
    << << "VARCHAR" >>, << "VARCHAR2" >>, << "TEXT" >>, << "NVARCHAR" >>,
       << "NVARCHAR2" >>, << "CHARACTER", " ", "VARYING" >>, << "STRING" >> >>,
    \* Product Code
    << << "VARCHAR" >>, << "VARCHAR2" >>, << "TEXT" >>, << "NVARCHAR" >>,
       << "NVARCHAR2" >>, << "CHARACTER", " ", "VARYING" >>, << "STRING" >> >>,
    \* Boolean
    << << "BOOLEAN" >>, << "BOOL" >>, << "BIT" >>,
       << "NUMBER", "(", "1", ")" >>, << "TINYINT" >>,
       << "CHAR", "(", "1", ")" >>, << "VARCHAR2", "(", "1", ")" >>,
       << "VARCHAR", "(", "1", ")" >>,
       << "CHAR", "(", "1", " ", "BYTE", ")" >>,
       << "NUMBER", "(", "1", ",", "0", ")" >> >>,
    \* Foreign Key
    << << "NUMBER" >>, << "INT" >>, << "INTEGER" >>, << "BIGINT" >>,
       << "UUID" >>, << "VARCHAR" >>, << "VARCHAR2" >>, << "CHAR" >>,
       << "TEXT" >>, << "STRING" >> >>,
    \* Humidity
    << << "NUMBER" >>, << "DECIMAL" >>, << "NUMERIC" >>, << "FLOAT" >>,
       << "DOUBLE" >>, << "NUMBER", "(", "5", ",", "2", ")" >>,
       << "DECIMAL", "(", "5", ",", "2", ")" >>,
       << "NUMERIC", "(", "5", ",", "2", ")" >> >>,
    \* Temperature
    << << "NUMBER" >>, << "DECIMAL" >>, << "NUMERIC" >>, << "FLOAT" >>,
       << "DOUBLE" >>, << "NUMBER", "(", "5", ",", "2", ")" >>,
       << "DECIMAL", "(", "5", ",", "2", ")" >>,
       << "NUMERIC", "(", "5", ",", "2", ")" >> >>,
    \* Temperature (Celsius String)
    << << "CHAR" >>, << "VARCHAR" >>, << "VARCHAR2" >>, << "TEXT" >>,
       << "STRING" >>, << "CHARACTER", " ", "VARYING" >> >>,
    \* Temperature (Fahrenheit String)
    << << "CHAR" >>, << "VARCHAR" >>, << "VARCHAR2" >>, << "TEXT" >>,
       << "STRING" >>, << "CHARACTER", " ", "VARYING" >> >>,
    \* Time Range
    << << "TIMESTAMP" >>,
       << "TIMESTAMP", " ", "WITH", " ", "TIME", " ", "ZONE" >>,
       << "DATETIME" >>, << "TIMESTAMP", "(", "6", ")" >>,
       << "TIMESTAMP", "(", "6", ")", " ", "WITH", " ", "TIME", " ", "ZONE" >> >>
  >>

\* Variant of EntryMatches that keeps only the base-type comparison.
EntryMatchesBaseOnly(type, normalizedType, baseType) ==
  LET compatType == Trim(TextToUpperCase(type))
  IN  compatType = baseType

\* Variant of EntryMatches without the parameterised-type comparison.
EntryMatchesNoParameterised(type, normalizedType, baseType) ==
  LET compatType == Trim(TextToUpperCase(type))
  IN  \/ compatType = normalizedType
      \/ compatType = baseType

\* The callback of compatibleTypes.some(...): exact match, base type match,
\* or parameterised type match.
EntryMatches(type, normalizedType, baseType) ==
  LET compatType     == Trim(TextToUpperCase(type))
      compatBaseType == Trim(BeforeFirst(compatType, "("))
  IN  \/ compatType = normalizedType
      \/ compatType = baseType
      \/ compatBaseType = baseType

\* The generators (catalog positions, in order) kept by the filter.
CompatibleGens(sqlType) ==
  LET normalizedType == Trim(TextToUpperCase(sqlType))
      baseType       == Trim(BeforeFirst(normalizedType, "("))
  IN  SelectSeq([i \in 1..Len(Catalog) |-> i],
                LAMBDA i : \E k \in 1..Len(CompatibleTypes[i]) :
                              EntryMatches(CompatibleTypes[i][k], normalizedType, baseType))

\* Variant of GetCompatibleGenerators without the fallback to all generators.
GetCompatibleGeneratorsFiltered(sqlType) ==
  [k \in 1..Len(CompatibleGens(sqlType)) |-> Catalog[CompatibleGens(sqlType)[k]]]

\* DataGeneratorRegistry.getCompatibleGenerators: the names of the generators
\* returned, in order.
GetCompatibleGenerators(sqlType) ==
  LET compatibleGens == CompatibleGens(sqlType)
  IN  IF Len(compatibleGens) = 0 THEN Catalog
      ELSE [k \in 1..Len(compatibleGens) |-> Catalog[compatibleGens[k]]]

\* ------------------------------------------------------------ processSchema
\* The position just after a match of /create\s+table\s+/i that starts at
\* position k of text, 0 when there is no match at k.
MatchCreateTable(text, k) ==
  IF /\ k + 1 <= Len(text)
     /\ UpperToken(text[k]) = "CREATE"
     /\ IsSpace(text[k + 1])
  THEN LET t == SkipSpaces(text, k + 1)
       IN  IF /\ t + 1 <= Len(text)
              /\ UpperToken(text[t]) = "TABLE"
              /\ IsSpace(text[t + 1])
           THEN SkipSpaces(text, t + 1)
           ELSE 0
  ELSE 0

RECURSIVE SplitCreateTableFrom(_, _, _)
SplitCreateTableFrom(text, k, start) ==
  IF k > Len(text) THEN << SubSeq(text, start, Len(text)) >>
  ELSE IF MatchCreateTable(text, k) # 0
       THEN << SubSeq(text, start, k - 1) >>
              \o SplitCreateTableFrom(text, MatchCreateTable(text, k),
                                      MatchCreateTable(text, k))
       ELSE SplitCreateTableFrom(text, k + 1, start)

\* schemaText.split(/create\s+table\s+/gi)
SplitCreateTable(text) == SplitCreateTableFrom(text, 1, 1)

\* colDef.replace(/[\[\]"`]/g, ''): brackets and double quotes are removed
\* (no text processed here holds a backquote)
RemoveQuotes(text) == SelectSeq(text, LAMBDA tok : tok \notin { "[", "]", "\"" })

\* tableDefinition.match(/[\[\`"]?(\w+)[\]\`"]?\s*\(/i): the first word that is
\* followed, after an optional closing quote and optional whitespace, by an
\* opening parenthesis; None when there is none.
TableNameMatch(tableDefinition) ==
  LET after(k) == SkipSpaces(tableDefinition,
                     IF k + 1 <= Len(tableDefinition)
                        /\ tableDefinition[k + 1] \in { "]", "\"" }
                     THEN k + 2 ELSE k + 1)
      hits == { k \in 1..Len(tableDefinition) :
                  /\ IsWord(tableDefinition[k])
                  /\ after(k) <= Len(tableDefinition)
                  /\ tableDefinition[after(k)] = "(" }
  IN  IF hits = {} THEN None
      ELSE Some(tableDefinition[CHOOSE k \in hits : \A j \in hits : k <= j])

\* The filter applied to the comma-separated pieces: a piece is kept unless,
\* trimmed and in upper case, it is empty or starts with CONSTRAINT,
\* PRIMARY KEY, FOREIGN KEY or INDEX.   (No other word of the texts processed
\* begins with one of these keywords.)
KeptByFilter(line) ==
  LET trimmedLine == TextToUpperCase(Trim(line))
      startsWith2(a, b) == /\ Len(trimmedLine) >= 3
                           /\ trimmedLine[1] = a
                           /\ trimmedLine[2] = " "
                           /\ trimmedLine[3] = b
  IN  /\ trimmedLine # << >>
      /\ trimmedLine[1] # "CONSTRAINT"
      /\ ~startsWith2("PRIMARY", "KEY")
      /\ ~startsWith2("FOREIGN", "KEY")
      /\ trimmedLine[1] # "INDEX"

\* tableDefinition.slice(indexOf('(') + 1, lastIndexOf(')')).split(',')
\* (every table definition processed here has a closing parenthesis)
ColumnPieces(tableDefinition) ==
  SplitOn(SubSeq(tableDefinition, IndexOf(tableDefinition, "(") + 1,
                 LastIndexOf(tableDefinition, ")") - 1), ",")

\* cleanColDef.match(/^(\w+)\s+([^\s]+(?:\([^\)]+\))?)\s*(.*)$/i): a word, then
\* whitespace, then the longest run of non-whitespace (the optional group can
\* add nothing to it: the run ends at whitespace or at the end), then the
\* rest, which '.' matches only when it holds no line break.  None when
\* there is no match, otherwise the column name and the data type.
ColMatch(cleanColDef) ==
  IF /\ Len(cleanColDef) >= 3
     /\ IsWord(cleanColDef[1])
     /\ IsSpace(cleanColDef[2])
     /\ SkipSpaces(cleanColDef, 2) <= Len(cleanColDef)
  THEN LET from == SkipSpaces(cleanColDef, 2)
           to   == SkipNonSpaces(cleanColDef, from)
           rest == SubSeq(cleanColDef, SkipSpaces(cleanColDef, to), Len(cleanColDef))
       IN  IF \E k \in 1..Len(rest) : rest[k] = "\n" THEN None
           ELSE Some([columnName |-> cleanColDef[1],
                      dataType   |-> SubSeq(cleanColDef, from, to - 1)])
  ELSE None

RECURSIVE ColumnsOfPieces(_, _, _)
\* columnDefinitions.forEach(colDef => ...): the descriptors pushed for the
\* pieces from position k on  (defaultValue is not followed)
ColumnsOfPieces(tableName, pieces, k) ==
  IF k > Len(pieces) THEN << >>
  ELSE LET colMatch == ColMatch(RemoveQuotes(Trim(pieces[k])))
       IN  (IF colMatch = None \/ ~KeptByFilter(pieces[k]) THEN << >>
            ELSE << [tableName  |-> tableName,
                     columnName |-> colMatch[1].columnName,
                     dataType   |-> Trim(TextToUpperCase(colMatch[1].dataType)),
                     generator  |-> ""] >>)
           \o ColumnsOfPieces(tableName, pieces, k + 1)

RECURSIVE ColumnsOfTables(_, _)
\* tables.slice(1).forEach(tableDefinition => ...)
ColumnsOfTables(tables, k) ==
  IF k > Len(tables) THEN << >>
  ELSE LET tableNameMatch == TableNameMatch(tables[k])
       IN  (IF tableNameMatch = None THEN << >>
            ELSE ColumnsOfPieces(tableNameMatch[1], ColumnPieces(tables[k]), 1))
           \o ColumnsOfTables(tables, k + 1)

\* processSchema: the column list passed to setSchemaColumns.
ProcessedColumns(schemaText) == ColumnsOfTables(Tail(SplitCreateTable(schemaText)), 1)

\* A word made of digits only.
IsNumber(tok) == tok \in { "0", "1", "2", "4", "5", "6", "10", "19", "50" }

\* detectSQLFeatures(sql).isValid  (the dialect list is not followed)
IsBasicallyValidSQL(sql) ==
  LET follows(a, b) == \E k \in 1..Len(sql) :
                          /\ UpperToken(sql[k]) = a
                          /\ k + 1 <= Len(sql) /\ IsSpace(sql[k + 1])
                          /\ SkipSpaces(sql, k + 1) <= Len(sql)
                          /\ UpperToken(sql[SkipSpaces(sql, k + 1)]) = b
      hasSelect     == \E k \in 1..Len(sql), j \in 1..Len(sql) :
                          /\ UpperToken(sql[k]) = "SELECT" /\ UpperToken(sql[j]) = "FROM"
                          /\ k + 1 < j /\ IsSpace(sql[k + 1]) /\ IsSpace(sql[j - 1])
                          /\ \A i \in k..j : sql[i] # "\n"
      opened(k)     == Cardinality({ i \in 1..k : sql[i] = "(" })
      closed(k)     == Cardinality({ i \in 1..k : sql[i] = ")" })
      hasValidParentheses ==
                       /\ \A k \in 1..Len(sql) : closed(k) <= opened(k)
                       /\ closed(Len(sql)) = opened(Len(sql))
  IN  /\ follows("CREATE", "TABLE") \/ follows("ALTER", "TABLE")
         \/ hasSelect \/ follows("INSERT", "INTO")
      /\ hasValidParentheses
      /\ ~ \E k \in 1..Len(sql) - 1 : sql[k] = ";" /\ sql[k + 1] = ";"
      /\ \E k \in 1..Len(sql) : IsWord(sql[k]) /\ ~IsNumber(sql[k])

\* ------------------------------------------------------------------ schemas
\* A column descriptor as read from localStorage 'currentSchema'.
Column(t, c, g, rt, rc) ==
  [tableName |-> t, columnName |-> c, generator |-> g,
   referencedTable |-> rt, referencedColumn |-> rc]

\* Generator assignment and reference of one column: << generator, table, column >>
\* (an unset reference field is the empty string, which is falsy like undefined).
FkAssignments ==
  { << "Foreign Key", r[1], r[2] >> :
      r \in { << "", "" >>, << "customers", "" >>, << "customers", "id" >>,
              << "orders", "id" >>, << "orders", "customer_id" >>,
              << "ghost", "id" >> } }

Slot1Assignments ==
  FkAssignments \cup
  { << g, "", "" >> : g \in { "", "firstname", "foreign key", "Sequential Number" } }

Slot2Assignments ==
  { << g, "", "" >> : g \in { "Sequential Number", "Boolean", "firstname", "foreign key" } }

Slot3Assignments ==
  { << "Sequential Number", "", "" >> }

\* The schemas explored: orders(customer_id, id) and customers(id), listed
\* with the orders table first and its foreign-key column before its id.
Schemas ==
  { << Column("orders", "customer_id", a[1], a[2], a[3]),
       Column("customers", "id", b[1], b[2], b[3]),
       Column("orders", "id", c[1], c[2], c[3]) >> :
      a \in Slot1Assignments, b \in Slot2Assignments, c \in Slot3Assignments }

AllTables == { "orders", "customers" }

\* --------------------------------------------------------- sequence helpers
RECURSIVE SelectIdx(_, _, _)
\* indices i >= from of sequence s with s[i].tableName = t, in order
SelectIdx(s, t, from) ==
  IF from > Len(s) THEN << >>
  ELSE IF s[from].tableName = t
       THEN << from >> \o SelectIdx(s, t, from + 1)
       ELSE SelectIdx(s, t, from + 1)

RECURSIVE UniqueFrom(_, _, _)
UniqueFrom(s, from, seen) ==
  IF from > Len(s) THEN << >>
  ELSE IF s[from].tableName \in seen
       THEN UniqueFrom(s, from + 1, seen)
       ELSE << s[from].tableName >> \o UniqueFrom(s, from + 1, seen \cup { s[from].tableName })

\* getUniqueTables: Array.from(new Set(columns.map(col => col.tableName)))
GetUniqueTables(columns) == UniqueFrom(columns, 1, {})

\* schema.columns.filter(col => col.tableName === table), as indices into columns
TableColumns(columns, t) == SelectIdx(columns, t, 1)

RECURSIVE ConcatTables(_, _, _)
ConcatTables(columns, tables, k) ==
  IF k > Len(tables) THEN << >>
  ELSE TableColumns(columns, tables[k]) \o ConcatTables(columns, tables, k + 1)

\* The order in which either pass visits the columns: table by table in
\* first-appearance order, and inside a table in schema order.
VisitOrder(columns) == ConcatTables(columns, GetUniqueTables(columns), 1)

\* colIndex of column i inside its own table (0-based in the source, 1-based here)
ColIndex(columns, i) ==
  Cardinality({ j \in 1..i : columns[j].tableName = columns[i].tableName })

\* `${tableName}.${columnName}`
ColumnKey(t, c) == t \o "." \o c

\* Variant of RowsToGenerate that ignores the per-table override.
RowsToGenerateDefaultOnly(tableRowCounts, rowCount, t) == rowCount

\* tableRowCounts[table] || rowCount   (null, undefined and 0 are falsy)
RowsToGenerate(tableRowCounts, rowCount, t) ==
  IF tableRowCounts[t] # None /\ tableRowCounts[t][1] # 0
  THEN tableRowCounts[t][1]
  ELSE rowCount

\* ------------------------------------------------------ row-count text input
\* Characters of the text typed into a number input.
Chars == { "-", "0", "2", "a" }

InputTexts == UNION { [1..n -> Chars] : n \in 0..MaxTextLen }

IsDigit(c) == c \in { "0", "2" }

DigitVal(c) == CASE c = "0" -> 0 [] c = "2" -> 2

RECURSIVE DigitPrefix(_, _, _)
\* value of the longest run of digits of s starting at position i, given the
\* value acc of the digits already read
DigitPrefix(s, i, acc) ==
  IF i > Len(s) \/ ~IsDigit(s[i]) THEN acc
  ELSE DigitPrefix(s, i + 1, acc * 10 + DigitVal(s[i]))

\* parseInt(text): optional sign, then the leading digits; NaN (None) when no
\* digit follows the optional sign.
ParseInt(s) ==
  LET neg   == Len(s) >= 1 /\ s[1] = "-"
      start == IF neg THEN 2 ELSE 1
  IN  IF start > Len(s) \/ ~IsDigit(s[start]) THEN None
      ELSE Some((IF neg THEN -1 ELSE 1) * DigitPrefix(s, start, 0))

\* Variant of CoerceRowCount without the Math.max floor: parseInt(...) || 1.
CoerceRowCountNoFloor(text) ==
  LET p == ParseInt(text)
  IN  IF p = None \/ p[1] = 0 THEN 1 ELSE p[1]

\* Math.max(1, parseInt(e.target.value) || 1)
CoerceRowCount(text) ==
  LET p == ParseInt(text)
      v == IF p = None \/ p[1] = 0 THEN 1 ELSE p[1]
  IN  IF v > 1 THEN v ELSE 1

\* const value = e.target.value ? parseInt(e.target.value) : null;
\* value && value > 0 ? value : null
CoerceOverride(text) ==
  LET value == IF text # << >> THEN ParseInt(text) ELSE None
  IN  IF value # None /\ value[1] # 0 /\ value[1] > 0 THEN value ELSE None

\* -------------------------------------------------------------------- state
VARIABLES
  route,              \* the page shown: "/generate" or "/generated"
  currentSchema,      \* localStorage 'currentSchema' (the column list)
  lsSettings,         \* localStorage 'generationSettings'
  lsData,             \* localStorage 'generatedData'
  schema,             \* GeneratePage state: schema.columns
  rowCount,           \* GeneratePage state
  tableRowCounts,     \* GeneratePage state
  isConfirmModalOpen, \* GeneratePage state
  pageData,           \* GeneratedDataPage state: generatedData
  pageSettings,       \* GeneratedDataPage state: generationSettings
  lastEdit,           \* the row-count input edited last and the kind of text typed
  run                 \* the generation handler in progress, or just finished
                      \* (its locals are dropped at the next user action);
                      \* run.before records what was stored and shown when
                      \* the handler was entered

VARIABLES
  preview,            \* GeneratePage: the generateSamples effect and the
                      \* sampleValues state it sets
  call,               \* the last direct call of a registry or generator
                      \* function: its arguments and its outcome
  editor              \* SchemaInput state: schemaText, validationResult,
                      \* schemaColumns, the FileReaders still reading, and
                      \* the event handled last

VARIABLES
  savedSchemas,       \* localStorage 'savedSchemas': entries by schema name
  navigation,         \* Navigation state: savedSchemas and schemaToDelete,
                      \* and the button of Navigation clicked last
  pages,              \* GeneratedDataPage state: rowsPerPage and currentPage
  second              \* a second invocation of handleConfirmGenerate that
                      \* started while the first one (run) was awaiting

\* The state of the generation pages that Spec follows.
generationVars == << route, currentSchema, lsSettings, lsData, schema, rowCount,
                     tableRowCounts, isConfirmModalOpen, pageData, pageSettings,
                     lastEdit, run >>

\* The state that the generation handlers and row-count inputs never touch.
otherVars == << preview, call, editor, savedSchemas, navigation, pages, second >>

\* Everything but the sample preview, and everything but the last call.
exceptPreview == << generationVars, call, editor, savedSchemas, navigation, pages, second >>
exceptCall == << generationVars, preview, editor, savedSchemas, navigation, pages, second >>
exceptEditor == << generationVars, preview, call, savedSchemas, navigation, pages, second >>

\* Everything but the saved schemas and the Navigation component, and
\* everything but the pagination of the results page.
exceptSaved == << generationVars, preview, call, pages, second >>
exceptPages == << generationVars, preview, call, editor, savedSchemas, navigation, second >>

vars == << route, currentSchema, lsSettings, lsData, schema, rowCount,
           tableRowCounts, isConfirmModalOpen, pageData, pageSettings,
           lastEdit, run, preview, call, editor, savedSchemas, navigation, pages,
           second >>

\* useState<{ [key: string]: number | null }>({})
NoOverrides == [t \in AllTables |-> None]

\* Items left in localStorage by an earlier session: one customers row
\* generated under a default row count of 1.
PriorSchema == << Column("customers", "id", "Sequential Number", "", "") >>

PriorSettings ==
  [defaultRowCount |-> 1, tableRowCounts |-> NoOverrides, schema |-> PriorSchema]

PriorData ==
  ("customers" :> [columns |-> << "id" >>, rows |-> << << "1" >> >>])

IdleRun ==
  [pc |-> "idle", kind |-> "none", columns |-> << >>, rowCount |-> 0,
   tableRowCounts |-> NoOverrides, pos |-> 0,
   generatedData |-> << >>, candidateKeyValues |-> << >>,
   error |-> None, lookups |-> 0, invoked |-> 0,
   before |-> [lsData |-> None, pageData |-> None, route |-> ""]]

Running == run.pc \in { "phase1", "phase2" }

\* The sample preview before the generateSamples effect has run (Spec does
\* not follow the preview; SpecPreview does).
IdlePreview ==
  [pc |-> "idle", pos |-> 0, samples |-> << >>, candidateKeyValues |-> << >>,
   invoked |-> {}, failed |-> {}, sampleValues |-> None]

\* No function has been called directly.
NoCall ==
  [fn |-> "none", count |-> 0, arg |-> None, done |-> FALSE, out |-> Returned(<< >>)]

\* SchemaInput after mounting: useState(''), useState(null), useState([]).
IdleEditor ==
  [schemaText |-> << >>, validationResult |-> None, schemaColumns |-> << >>,
   readers |-> {}, lastEvent |-> [kind |-> "mount", files |-> << >>],
   isModalOpen |-> FALSE, isValidationModalOpen |-> FALSE,
   isDeleteModalOpen |-> FALSE, columnToDelete |-> None,
   unselectedColumns |-> << >>, rowCount |-> EditorRowCount,
   generatedData |-> None, isFormatModalOpen |-> FALSE]

\* Nothing saved: localStorage.getItem('savedSchemas') || '{}'
NoSavedSchemas == << >>

\* Navigation after mounting with nothing saved: useState({}), useState(null).
IdleNavigation ==
  [savedSchemas |-> NoSavedSchemas, schemaToDelete |-> None, lastEvent |-> "mount"]

\* GeneratedDataPage after mounting: useState(10), useState({}); a table
\* without an entry in currentPage is on page 0 (currentPage[t] || 0).
IdlePages ==
  [rowsPerPage |-> DefaultRowsPerPage, currentPage |-> [t \in AllTables |-> 0]]

\* The saved schemas and the pagination before anything was saved or
\* paged, and no second invocation.
InitElsewhere ==
  /\ savedSchemas = NoSavedSchemas
  /\ navigation = IdleNavigation
  /\ pages = IdlePages
  /\ second = IdleRun

\* The generateSamples effect has finished, or is not followed.
PreviewSettled == preview.pc \in { "idle", "done" }

\* The generation pages after GeneratePage has mounted.
InitGeneration ==
  /\ route = "/generate"
  /\ currentSchema \in Schemas
  /\ schema = currentSchema
  /\ lsData \in { None, Some(PriorData) }
  /\ lsSettings = IF lsData = None THEN None ELSE Some(PriorSettings)
  /\ rowCount = DefaultRowCount
  /\ tableRowCounts = NoOverrides
  /\ isConfirmModalOpen = FALSE
  /\ pageData = None
  /\ pageSettings = None
  /\ lastEdit = None
  /\ run = IdleRun

Init ==
  /\ InitGeneration
  /\ preview = IdlePreview
  /\ call = NoCall
  /\ InitElsewhere
  /\ editor = IdleEditor

\* ------------------------------------------------------ GeneratePage inputs
\* onChange of the default row count input
SetRowCount(text) ==
  /\ route = "/generate" /\ ~Running
  /\ rowCount' = CoerceRowCount(text)
  /\ run' = IdleRun
  /\ UNCHANGED otherVars
  /\ UNCHANGED << route, currentSchema, lsSettings, lsData, schema,
                  tableRowCounts, isConfirmModalOpen, pageData, pageSettings >>

\* onChange of the row count override input of table t
SetTableRowCount(t, text) ==
  /\ route = "/generate" /\ ~Running
  /\ t \in { schema[i].tableName : i \in 1..Len(schema) }
  /\ tableRowCounts' = [tableRowCounts EXCEPT ![t] = CoerceOverride(text)]
  /\ run' = IdleRun
  /\ UNCHANGED otherVars
  /\ UNCHANGED << route, currentSchema, lsSettings, lsData, schema,
                  rowCount, isConfirmModalOpen, pageData, pageSettings >>

\* handleGenerateClick
HandleGenerateClick ==
  /\ route = "/generate" /\ ~Running
  /\ isConfirmModalOpen' = TRUE
  /\ run' = IdleRun
  /\ UNCHANGED otherVars
  /\ UNCHANGED << lastEdit, route, currentSchema, lsSettings, lsData, schema, rowCount,
                  tableRowCounts, pageData, pageSettings >>

\* Cancel button of the confirmation modal
CancelConfirm ==
  /\ route = "/generate" /\ ~Running /\ isConfirmModalOpen
  /\ isConfirmModalOpen' = FALSE
  /\ run' = IdleRun
  /\ UNCHANGED otherVars
  /\ UNCHANGED << lastEdit, route, currentSchema, lsSettings, lsData, schema, rowCount,
                  tableRowCounts, pageData, pageSettings >>

\* ------------------------------------------------------ generation handlers
\* The row counts a run would use stay within the explored range.
RowsWithinBound(columns, rc, trc) ==
  \A i \in 1..Len(columns) : RowsToGenerate(trc, rc, columns[i].tableName) <= MaxRows

\* Entry of either handler: fresh generatedData and candidateKeyValues.
Started(kind, columns, rc, trc) ==
  [pc |-> "phase1", kind |-> kind, columns |-> columns,
   rowCount |-> rc, tableRowCounts |-> trc, pos |-> 1,
   generatedData |-> << >>, candidateKeyValues |-> << >>,
   error |-> None, lookups |-> 0, invoked |-> 0,
   before |-> [lsData |-> lsData, pageData |-> pageData, route |-> route]]

StartRun(kind, columns, rc, trc) ==
  /\ RowsWithinBound(columns, rc, trc)
  /\ run' = Started(kind, columns, rc, trc)

\* handleConfirmGenerate up to the first pass: stores the generation settings.
HandleConfirmGenerate ==
  /\ route = "/generate" /\ ~Running /\ isConfirmModalOpen
  /\ StartRun("confirm", schema, rowCount, tableRowCounts)
  /\ lsSettings' = Some([defaultRowCount |-> rowCount,
                         tableRowCounts |-> tableRowCounts,
                         schema |-> schema])
  /\ UNCHANGED otherVars
  /\ UNCHANGED << lastEdit, route, currentSchema, lsData, schema, rowCount,
                  tableRowCounts, isConfirmModalOpen, pageData, pageSettings >>

\* handleGenerateAgain up to the first pass: reads the settings held in state.
\* The button is rendered only when generatedData is set.
HandleGenerateAgain ==
  /\ route = "/generated" /\ ~Running
  /\ pageData # None /\ pageSettings # None
  /\ StartRun("again", pageSettings[1].schema, pageSettings[1].defaultRowCount,
              pageSettings[1].tableRowCounts)
  /\ UNCHANGED otherVars
  /\ UNCHANGED << lastEdit, route, currentSchema, lsSettings, lsData, schema, rowCount,
                  tableRowCounts, isConfirmModalOpen, pageData, pageSettings >>

\* The first pass skips a column: no generator assigned, or the Foreign Key
\* generator (compared with ===, so case matters).
SkippedByFirstPass(col) == col.generator = "" \/ col.generator = "Foreign Key"

\* Variant of FirstPassGenerator in which a column without a generator gets
\* the first catalog entry.
FirstPassGeneratorDefaulting(col) ==
  IF col.generator = "Foreign Key" THEN Null
  ELSE IF col.generator = "" THEN Catalog[1]
  ELSE RegistryGet(col.generator)

\* The generator the first pass calls for a column, or Null when the column
\* is skipped: `if (!column.generator || column.generator === 'Foreign Key')
\* continue;` then generatorRegistry.get, then `if (!generator) continue;`
\* (generateSamples: `if (generator) { ... }`).
FirstPassGenerator(col) ==
  IF SkippedByFirstPass(col) THEN Null ELSE RegistryGet(col.generator)

\* The second pass handles a column: the Foreign Key generator with both
\* reference fields set.
HandledBySecondPass(col) ==
  col.generator = "Foreign Key" /\ col.referencedTable # "" /\ col.referencedColumn # ""

\* Variant of AfterFirstPass that leaves the first pass one iteration early.
AfterFirstPassEarly(pos, n) ==
  IF pos >= n - 1 THEN [pc |-> "phase2", pos |-> 1]
  ELSE [pc |-> "phase1", pos |-> pos + 1]

\* Where a run continues after the first pass visited position pos of n.
AfterFirstPass(pos, n) ==
  IF pos >= n THEN [pc |-> "phase2", pos |-> 1]
  ELSE [pc |-> "phase1", pos |-> pos + 1]

\* Variant of ColumnNames that lists the first-pass columns before the
\* foreign-key columns.
ColumnNamesByPhase(columns, t) ==
  LET idx   == TableColumns(columns, t)
      names == [k \in 1..Len(idx) |-> columns[idx[k]]]
      fk(c) == c.generator = "Foreign Key"
      ind   == SelectSeq(names, LAMBDA c : ~fk(c))
      dep   == SelectSeq(names, LAMBDA c : fk(c))
      all   == ind \o dep
  IN  [k \in 1..Len(all) |-> all[k].columnName]

\* columns: tableColumns.map(col => col.columnName)
ColumnNames(columns, t) ==
  LET idx == TableColumns(columns, t)
  IN  [k \in 1..Len(idx) |-> columns[idx[k]].columnName]

\* generatedData[table] = { columns, rows: rowsToGenerate rows of nulls }
EmptyTable(columns, t, rows) ==
  [columns |-> ColumnNames(columns, t),
   rows    |-> [r \in 1..rows |-> [k \in 1..Len(TableColumns(columns, t)) |-> Null]]]

\* values.forEach((value, rowIndex) => rows[rowIndex][colIndex] = value)
WriteColumn(table, colIndex, values) ==
  [table EXCEPT !.rows =
     [r \in 1..Len(table.rows) |->
        IF r <= Len(values)
        THEN [table.rows[r] EXCEPT ![colIndex] = values[r]]
        ELSE table.rows[r]]]

\* Variant of ReferencedKey that takes the table of the column itself.
ReferencedKeyOwnTable(col) == ColumnKey(col.tableName, col.referencedColumn)

\* `${column.referencedTable}.${column.referencedColumn}`
ReferencedKey(col) == ColumnKey(col.referencedTable, col.referencedColumn)

\* candidateKeyValues[referencedKey]; a missing key reads as undefined (None)
LookupCandidates(ckv, key) == IF key \in DOMAIN ckv THEN Some(ckv[key]) ELSE None

\* The values a foreign-key column can receive: for each row one element of
\* referencedValues at index floor(random * length).
DrawReferenced(referencedValues, rows) ==
  { [r \in 1..rows |-> referencedValues[d[r]]] :
      d \in [1..rows -> 1..Len(referencedValues)] }

\* Variant of CatchStored that stores what the run had built so far.
CatchStoredPartial(stored, partial) == Some(partial)

\* What the catch block leaves in localStorage 'generatedData'.
CatchStored(stored, partial) == stored

\* One iteration of the first pass of the invocation with locals r
\* (including the table set-up when the iteration is the first of its
\* table, and the awaited generator call): the locals it can lead to.
Phase1Next(r) ==
  LET columns == r.columns
      order   == VisitOrder(columns)
      i       == order[r.pos]
      col     == columns[i]
      t       == col.tableName
      rows    == RowsToGenerate(r.tableRowCounts, r.rowCount, t)
      gd1     == IF ColIndex(columns, i) = 1
                 THEN (t :> EmptyTable(columns, t, rows)) @@ r.generatedData
                 ELSE r.generatedData
      next    == AfterFirstPass(r.pos, Len(order))
      g       == FirstPassGenerator(col)
  IN  IF g = Null
      THEN { [r EXCEPT !.generatedData = gd1, !.pc = next.pc, !.pos = next.pos] }
      ELSE { IF out.ok
             THEN [r EXCEPT
                     !.generatedData =
                        [gd1 EXCEPT ![t] = WriteColumn(gd1[t], ColIndex(columns, i), out.values)],
                     !.candidateKeyValues =
                        (ColumnKey(t, col.columnName) :> out.values) @@ r.candidateKeyValues,
                     !.invoked = r.invoked + 1,
                     !.pc = next.pc, !.pos = next.pos]
             ELSE [r EXCEPT !.generatedData = gd1,
                            !.invoked = r.invoked + 1,
                            !.pc = "failed",
                            !.error = Some(out.error)] :
             out \in Generate(g, rows) }

\* One iteration of the first pass of the handler in progress.
Phase1Step ==
  /\ run.pc = "phase1"
  /\ \E r \in Phase1Next(run) :
       /\ run' = r
       /\ lsData' = IF r.pc = "failed" THEN CatchStored(lsData, r.generatedData) ELSE lsData
  /\ UNCHANGED otherVars
  /\ UNCHANGED << lastEdit, route, currentSchema, lsSettings, schema, rowCount,
                  tableRowCounts, isConfirmModalOpen, pageData, pageSettings >>

\* Variant of CandidateKeyIndex in which every invocation reads the index of
\* the first one (an index kept outside the handler).
CandidateKeyIndexShared(r) == run.candidateKeyValues

\* The candidate-key index an invocation reads: its own local
\* `const candidateKeyValues`.
CandidateKeyIndex(r) == r.candidateKeyValues

\* One iteration of the second pass of the invocation with locals r: the
\* locals it can lead to.
Phase2Next(r) ==
  LET columns == r.columns
      order   == VisitOrder(columns)
      i       == order[r.pos]
      col     == columns[i]
      t       == col.tableName
      gd      == r.generatedData
      found   == LookupCandidates(CandidateKeyIndex(r), ReferencedKey(col))
  IN  IF ~HandledBySecondPass(col)
      THEN { [r EXCEPT !.pos = r.pos + 1] }
      ELSE IF found = None \/ Len(found[1]) = 0
      THEN { [r EXCEPT
                !.lookups = r.lookups + 1,
                !.pc = "failed",
                !.error = Some(<< col.referencedTable, col.referencedColumn >>)] }
      ELSE { [r EXCEPT
                !.lookups = r.lookups + 1,
                !.generatedData =
                   [gd EXCEPT ![t] = WriteColumn(gd[t], ColIndex(columns, i), vals)],
                !.pos = r.pos + 1] :
             vals \in DrawReferenced(found[1], Len(gd[t].rows)) }

\* One iteration of the second pass of the handler in progress.
Phase2Step ==
  /\ run.pc = "phase2"
  /\ run.pos <= Len(run.columns)
  /\ \E r \in Phase2Next(run) :
       /\ run' = r
       /\ lsData' = IF r.pc = "failed" THEN CatchStored(lsData, r.generatedData) ELSE lsData
  /\ UNCHANGED otherVars
  /\ UNCHANGED << lastEdit, route, currentSchema, lsSettings, schema, rowCount,
                  tableRowCounts, isConfirmModalOpen, pageData, pageSettings >>

\* Mount effect of GeneratedDataPage: state is loaded only when both items exist.
MountedData(data, settings) == IF data # None /\ settings # None THEN data ELSE None
MountedSettings(data, settings) == IF data # None /\ settings # None THEN settings ELSE None

\* End of the try block: the dataset is stored; handleConfirmGenerate closes
\* the modal and navigates to the results page (which mounts and loads the
\* stored items), handleGenerateAgain replaces the displayed dataset.
StoreStep ==
  /\ run.pc = "phase2"
  /\ run.pos > Len(run.columns)
  /\ lsData' = Some(run.generatedData)
  /\ run' = [run EXCEPT !.pc = "done"]
  /\ IF run.kind = "confirm"
     THEN /\ isConfirmModalOpen' = FALSE
          /\ route' = "/generated"
          /\ pageData' = MountedData(lsData', lsSettings)
          /\ pageSettings' = MountedSettings(lsData', lsSettings)
     ELSE /\ pageData' = Some(run.generatedData)
          /\ UNCHANGED << isConfirmModalOpen, route, pageSettings >>
  /\ UNCHANGED otherVars
  /\ UNCHANGED << lastEdit, currentSchema, lsSettings, schema, rowCount,
                  tableRowCounts >>

\* Back button of GeneratedDataPage: router.push('/generate'); GeneratePage
\* mounts with its initial state and loads 'currentSchema'; the state of the
\* results page is gone, and is created anew when it mounts again.
BackToGenerate ==
  /\ route = "/generated" /\ ~Running /\ pageData # None
  /\ route' = "/generate"
  /\ schema' = currentSchema
  /\ rowCount' = DefaultRowCount
  /\ tableRowCounts' = NoOverrides
  /\ isConfirmModalOpen' = FALSE
  /\ run' = IdleRun
  /\ pages' = IdlePages
  /\ UNCHANGED << preview, call, editor, savedSchemas, navigation, second >>
  /\ UNCHANGED << lastEdit, currentSchema, lsSettings, lsData, pageData, pageSettings >>

\* Row-count edits followed by runs: single-character texts.
RunTexts == { text \in InputTexts : Len(text) <= 1 }

BoundedSetRowCount ==
  \E text \in RunTexts : SetRowCount(text) /\ UNCHANGED lastEdit

BoundedSetTableRowCount ==
  \E t \in AllTables, text \in RunTexts :
     SetTableRowCount(t, text) /\ UNCHANGED lastEdit

\* The kind of text typed, as recorded in lastEdit.
TextKind(text) ==
  CASE text = << >>          -> "empty"
    [] ParseInt(text) = None -> "non-numeric"
    [] ParseInt(text)[1] = 0 -> "zero"
    [] ParseInt(text)[1] < 0 -> "negative"
    [] OTHER                 -> "positive"

\* Row-count edits with any text.
EditRowCount ==
  \E text \in InputTexts :
     SetRowCount(text) /\ lastEdit' = Some(<< "rowCount", TextKind(text) >>)

EditTableRowCount ==
  \E t \in AllTables, text \in InputTexts :
     SetTableRowCount(t, text) /\ lastEdit' = Some(<< t, TextKind(text) >>)

\* ------------------------------------------------------- sample preview
\* The effect starts when the schema has been loaded.
StartSamples ==
  /\ route = "/generate" /\ preview.pc = "idle" /\ run.pc = "idle"
  /\ preview' = [preview EXCEPT !.pc = IF Len(schema) = 0 THEN "set" ELSE "first",
                                !.pos = 1]
  /\ UNCHANGED exceptPreview

\* The placeholder shown for a foreign-key column without sample values.
Placeholder == << "(Values will be generated from referenced column)" >>

\* One iteration of the first loop of generateSamples; an error thrown by the
\* generator is caught inside the loop and logged.
SamplesFirstStep ==
  /\ preview.pc = "first"
  /\ LET col  == schema[preview.pos]
         key  == ColumnKey(col.tableName, col.columnName)
         g    == FirstPassGenerator(col)
         nxt  == IF preview.pos >= Len(schema)
                 THEN [pc |-> "second", pos |-> 1]
                 ELSE [pc |-> "first", pos |-> preview.pos + 1]
     IN  IF g = Null
         THEN preview' = [preview EXCEPT !.pc = nxt.pc, !.pos = nxt.pos]
         ELSE \E out \in Generate(g, SampleCount) :
                IF out.ok
                THEN preview' = [preview EXCEPT
                        !.samples = (key :> out.values) @@ preview.samples,
                        !.candidateKeyValues =
                           (key :> out.values) @@ preview.candidateKeyValues,
                        !.invoked = preview.invoked \cup { preview.pos },
                        !.pc = nxt.pc, !.pos = nxt.pos]
                ELSE preview' = [preview EXCEPT
                        !.invoked = preview.invoked \cup { preview.pos },
                        !.failed = preview.failed \cup { preview.pos },
                        !.pc = nxt.pc, !.pos = nxt.pos]
  /\ UNCHANGED exceptPreview

\* One iteration of the second loop of generateSamples.
SamplesSecondStep ==
  /\ preview.pc = "second"
  /\ LET col   == schema[preview.pos]
         key   == ColumnKey(col.tableName, col.columnName)
         found == IF col.referencedTable # "" /\ col.referencedColumn # ""
                  THEN LookupCandidates(preview.candidateKeyValues, ReferencedKey(col))
                  ELSE None
         nxt   == IF preview.pos >= Len(schema)
                  THEN [pc |-> "set", pos |-> preview.pos]
                  ELSE [pc |-> "second", pos |-> preview.pos + 1]
     IN  IF col.generator # "Foreign Key"
         THEN preview' = [preview EXCEPT !.pc = nxt.pc, !.pos = nxt.pos]
         ELSE preview' = [preview EXCEPT
                 !.samples = (key :> (IF found # None THEN found[1] ELSE Placeholder))
                                @@ preview.samples,
                 !.pc = nxt.pc, !.pos = nxt.pos]
  /\ UNCHANGED exceptPreview

\* setSampleValues(samples)
SetSampleValues ==
  /\ preview.pc = "set"
  /\ preview' = [preview EXCEPT !.pc = "done", !.sampleValues = Some(preview.samples)]
  /\ UNCHANGED exceptPreview

Next ==
  \/ BoundedSetRowCount
  \/ BoundedSetTableRowCount
  \/ HandleGenerateClick
  \/ CancelConfirm
  \/ HandleConfirmGenerate
  \/ HandleGenerateAgain
  \/ Phase1Step
  \/ Phase2Step
  \/ StoreStep
  \/ BackToGenerate

Spec == Init /\ [][Next]_vars

\* The row-count inputs of the generate page under arbitrary texts.
NextRows ==
  \/ EditRowCount
  \/ EditTableRowCount
  \/ HandleGenerateClick
  \/ CancelConfirm

\* One schema, nothing stored yet.
CustomersOrders ==
  << Column("orders", "customer_id", "Foreign Key", "customers", "id"),
     Column("customers", "id", "Sequential Number", "", ""),
     Column("orders", "id", "Sequential Number", "", "") >>

InitRows == Init /\ currentSchema = CustomersOrders /\ lsData = None

SpecRows == InitRows /\ [][NextRows]_vars

\* The generate page with its sample preview: the effect runs to its end
\* before any user event is handled (its awaits resolve on microtasks).
NextPreview ==
  \/ StartSamples
  \/ SamplesFirstStep
  \/ SamplesSecondStep
  \/ SetSampleValues
  \/ (preview.pc = "done" /\ BoundedSetRowCount)
  \/ (preview.pc = "done" /\ HandleGenerateClick)
  \/ (preview.pc = "done" /\ CancelConfirm)
  \/ (preview.pc = "done" /\ HandleConfirmGenerate)
  \/ Phase1Step
  \/ Phase2Step
  \/ StoreStep

\* Schemas whose first column has no generator or is a foreign key to
\* customers.id; nothing stored yet.
InitPreview ==
  /\ Init
  /\ lsData = None
  /\ << currentSchema[1].generator, currentSchema[1].referencedTable,
        currentSchema[1].referencedColumn >>
        \in { << "", "", "" >>, << "Foreign Key", "customers", "id" >> }

SpecPreview == InitPreview /\ [][NextPreview]_vars

\* -------------------------------------------------------------- direct calls
\* Tokens of the type strings tried.
TypeTokens == { "NUMBER", "number", "CHAR", "BLOB", "(", ")", "1", ",", " " }

\* Every compatible-type entry of every generator.
AllEntries ==
  UNION { { CompatibleTypes[i][k] : k \in 1..Len(CompatibleTypes[i]) } :
            i \in 1..Len(Catalog) }

\* The type strings passed to getCompatibleGenerators.
TypeQueries ==
  AllEntries \cup UNION { [1..n -> TypeTokens] : n \in 0..MaxTypeLen }

\* A call about to be made: its function and arguments.
Pending(fn, count, arg) ==
  [fn |-> fn, count |-> count, arg |-> arg, done |-> FALSE, out |-> Returned(<< >>)]

CallGetCompatibleGenerators ==
  /\ call.fn = "getCompatibleGenerators" /\ ~call.done
  /\ call' = [call EXCEPT !.done = TRUE,
                          !.out = Returned(GetCompatibleGenerators(call.arg[1]))]
  /\ UNCHANGED exceptCall

\* Options passed to the Boolean generator: omitted, trueWeight undefined,
\* or a trueWeight from 0 to 1 in quarters.
BooleanOptions ==
  { None, Some([trueWeight |-> None]) } \cup
  { Some([trueWeight |-> Some(w)]) : w \in 0..4 }

CallBooleanGenerate ==
  /\ call.fn = "booleanGenerator.generate" /\ ~call.done
  /\ \E out \in BooleanGenerate(call.count, call.arg) :
       call' = [call EXCEPT !.done = TRUE, !.out = out]
  /\ UNCHANGED exceptCall

\* Options passed to the Foreign Key generator: omitted, or a reference to
\* customers.id with referencedValues undefined, empty or holding values.
ForeignKeyOptions ==
  { None } \cup
  { Some([referencedTable |-> "customers", referencedColumn |-> "id",
          referencedValues |-> v]) :
      v \in { None, Some(<< >>), Some(<< "a" >>), Some(<< "a", "b" >>) } }

CallForeignKeyGenerate ==
  /\ call.fn = "foreignKeyGenerator.generate" /\ ~call.done
  /\ \E out \in ForeignKeyGenerate(call.count, call.arg) :
       call' = [call EXCEPT !.done = TRUE, !.out = out]
  /\ UNCHANGED exceptCall

NextCalls ==
  \/ CallGetCompatibleGenerators
  \/ CallBooleanGenerate
  \/ CallForeignKeyGenerate

\* The calls tried, one per behaviour.
PendingCalls ==
  { Pending("getCompatibleGenerators", 0, Some(q)) : q \in TypeQueries } \cup
  { Pending("booleanGenerator.generate", n, o) : n \in 0..MaxRows, o \in BooleanOptions } \cup
  { Pending("foreignKeyGenerator.generate", n, o) : n \in 0..MaxRows, o \in ForeignKeyOptions }

InitCalls ==
  /\ InitGeneration /\ currentSchema = CustomersOrders /\ lsData = None
  /\ preview = IdlePreview
  /\ editor = IdleEditor
  /\ InitElsewhere
  /\ call \in PendingCalls

SpecCalls == InitCalls /\ [][NextCalls]_vars

\* ----------------------------------------------------- overlapping runs
\* A second click on the Generate button of the confirmation modal (which
\* stays open until a run has stored its dataset) while the first
\* invocation is suspended at `await generator.generate(...)`: the handler
\* is entered again, with locals of its own.
SecondConfirmGenerate ==
  /\ route = "/generate" /\ isConfirmModalOpen
  /\ Running /\ run.invoked > 0
  /\ second.pc = "idle"
  /\ RowsWithinBound(schema, rowCount, tableRowCounts)
  /\ second' = Started("confirm", schema, rowCount, tableRowCounts)
  /\ lsSettings' = Some([defaultRowCount |-> rowCount,
                         tableRowCounts |-> tableRowCounts,
                         schema |-> schema])
  /\ UNCHANGED << preview, call, editor, savedSchemas, navigation, pages >>
  /\ UNCHANGED << lastEdit, route, currentSchema, lsData, schema, rowCount,
                  tableRowCounts, isConfirmModalOpen, pageData, pageSettings, run >>

\* One iteration of the first pass of the second invocation.
SecondPhase1Step ==
  /\ second.pc = "phase1"
  /\ \E r \in Phase1Next(second) :
       /\ second' = r
       /\ lsData' = IF r.pc = "failed" THEN CatchStored(lsData, r.generatedData) ELSE lsData
  /\ UNCHANGED << preview, call, editor, savedSchemas, navigation, pages >>
  /\ UNCHANGED << lastEdit, route, currentSchema, lsSettings, schema, rowCount,
                  tableRowCounts, isConfirmModalOpen, pageData, pageSettings, run >>

\* One iteration of the second pass of the second invocation.
SecondPhase2Step ==
  /\ second.pc = "phase2"
  /\ second.pos <= Len(second.columns)
  /\ \E r \in Phase2Next(second) :
       /\ second' = r
       /\ lsData' = IF r.pc = "failed" THEN CatchStored(lsData, r.generatedData) ELSE lsData
  /\ UNCHANGED << preview, call, editor, savedSchemas, navigation, pages >>
  /\ UNCHANGED << lastEdit, route, currentSchema, lsSettings, schema, rowCount,
                  tableRowCounts, isConfirmModalOpen, pageData, pageSettings, run >>

\* End of the try block of the second invocation: its dataset is stored, the
\* modal is closed and the results page is pushed (it mounts, and loads the
\* stored items, unless it is shown already).
SecondStoreStep ==
  /\ second.pc = "phase2"
  /\ second.pos > Len(second.columns)
  /\ lsData' = Some(second.generatedData)
  /\ second' = [second EXCEPT !.pc = "done"]
  /\ isConfirmModalOpen' = FALSE
  /\ route' = "/generated"
  /\ IF route = "/generated"
     THEN UNCHANGED << pageData, pageSettings >>
     ELSE /\ pageData' = MountedData(lsData', lsSettings)
          /\ pageSettings' = MountedSettings(lsData', lsSettings)
  /\ UNCHANGED << preview, call, editor, savedSchemas, navigation, pages >>
  /\ UNCHANGED << lastEdit, currentSchema, lsSettings, schema, rowCount,
                  tableRowCounts, run >>

\* Schemas with random values in customers.id and a foreign key to it, or
\* to orders.id; nothing stored yet.
InitOverlap ==
  /\ Init
  /\ lsData = None
  /\ currentSchema[1].generator = "Foreign Key"
  /\ ReferencedKey(currentSchema[1]) \in { "customers.id", "orders.id" }
  /\ currentSchema[2].generator = "Boolean"

\* The generate page with two invocations of handleConfirmGenerate whose
\* iterations interleave.
NextOverlap ==
  \/ BoundedSetRowCount
  \/ HandleGenerateClick
  \/ HandleConfirmGenerate
  \/ Phase1Step
  \/ Phase2Step
  \/ StoreStep
  \/ SecondConfirmGenerate
  \/ SecondPhase1Step
  \/ SecondPhase2Step
  \/ SecondStoreStep

SpecOverlap == InitOverlap /\ [][NextOverlap]_vars

\* ------------------------------------------------- results page, paging
\* Math.ceil(a / b) for a >= 0 and b > 0
Ceil(a, b) == (a + b - 1) \div b

\* getPageCount(totalRows)
GetPageCount(totalRows) == Ceil(totalRows, pages.rowsPerPage)

\* The rows of a displayed table.
TableRows(tableName) == pageData[1][tableName].rows

\* getCurrentPageRows(rows, tableName): rows.slice(start, start + rowsPerPage)
GetCurrentPageRows(rows, tableName) ==
  LET page  == pages.currentPage[tableName]
      start == page * pages.rowsPerPage
      last  == IF start + pages.rowsPerPage < Len(rows)
               THEN start + pages.rowsPerPage ELSE Len(rows)
  IN  SubSeq(rows, start + 1, last)

\* The Previous and Next buttons of a table are rendered.
PaginationShown(tableName) ==
  /\ route = "/generated"
  /\ pageData # None
  /\ tableName \in DOMAIN pageData[1]
  /\ Len(TableRows(tableName)) > pages.rowsPerPage

\* Previous button (disabled on page 0)
PreviousPage(tableName) ==
  /\ PaginationShown(tableName)
  /\ pages.currentPage[tableName] # 0
  /\ pages' = [pages EXCEPT !.currentPage[tableName] =
                 IF @ - 1 > 0 THEN @ - 1 ELSE 0]
  /\ UNCHANGED exceptPages

\* Next button (disabled on the last page)
NextPage(tableName) ==
  /\ PaginationShown(tableName)
  /\ ~(pages.currentPage[tableName] >= GetPageCount(Len(TableRows(tableName))) - 1)
  /\ pages' = [pages EXCEPT !.currentPage[tableName] =
                 IF GetPageCount(Len(TableRows(tableName))) - 1 < @ + 1
                 THEN GetPageCount(Len(TableRows(tableName))) - 1 ELSE @ + 1]
  /\ UNCHANGED exceptPages

\* Math.max(1, parseInt(e.target.value) || 10)
CoerceRowsPerPage(text) ==
  LET p == ParseInt(text)
      v == IF p = None \/ p[1] = 0 THEN DefaultRowsPerPage ELSE p[1]
  IN  IF v > 1 THEN v ELSE 1

\* onChange of the rows-per-page input: only rowsPerPage is set
SetRowsPerPage(text) ==
  /\ route = "/generated"
  /\ pageData # None
  /\ pages' = [pages EXCEPT !.rowsPerPage = CoerceRowsPerPage(text)]
  /\ UNCHANGED exceptPages

\* Texts typed into the rows-per-page input: they give 2, 1 and 10.
PageTexts == { << "2" >>, << "-", "2" >>, << "a" >> }

\* A schema is generated and its results are paged through.
InitPages ==
  /\ InitGeneration /\ currentSchema = CustomersOrders /\ lsData = None
  /\ preview = IdlePreview
  /\ call = NoCall
  /\ editor = IdleEditor
  /\ InitElsewhere

NextPages ==
  \/ BoundedSetRowCount
  \/ HandleGenerateClick
  \/ HandleConfirmGenerate
  \/ HandleGenerateAgain
  \/ Phase1Step
  \/ Phase2Step
  \/ StoreStep
  \/ BackToGenerate
  \/ \E tableName \in AllTables : PreviousPage(tableName)
  \/ \E tableName \in AllTables : NextPage(tableName)
  \/ \E text \in PageTexts : SetRowsPerPage(text)

SpecPages == InitPages /\ [][NextPages]_vars

\* ------------------------------------------------------------ schema editor
\* The state after the schema text was replaced by text.
Replaced(text, event) ==
  [editor EXCEPT !.schemaText = text, !.validationResult = None,
                 !.schemaColumns = << >>, !.lastEvent = event]

\* onChange of the text area
TypeText(text) ==
  /\ editor' = Replaced(text, [kind |-> "type", files |-> << text >>])
  /\ UNCHANGED exceptEditor

\* Variant of DroppedFile that reads the last accepted file.
DroppedFileLast(acceptedFiles) == acceptedFiles[Len(acceptedFiles)]

\* const file = acceptedFiles[0]
DroppedFile(acceptedFiles) == acceptedFiles[1]

\* onDrop: with at least one accepted file a FileReader starts reading the
\* first one (readers of equal drops are not told apart).
OnDrop(acceptedFiles) ==
  /\ editor' = [editor EXCEPT
        !.readers = IF Len(acceptedFiles) = 0 THEN editor.readers
                    ELSE editor.readers \cup
                           { [files |-> acceptedFiles, file |-> DroppedFile(acceptedFiles)] },
        !.lastEvent = [kind |-> "drop", files |-> acceptedFiles]]
  /\ UNCHANGED exceptEditor

\* reader.onload: the result of readAsText is a string
ReaderLoad ==
  /\ \E r \in editor.readers :
       editor' = [Replaced(r.file, [kind |-> "load", files |-> r.files])
                    EXCEPT !.readers = editor.readers \ { r }]
  /\ UNCHANGED exceptEditor

\* reader.onerror: the error is logged
ReaderError ==
  /\ \E r \in editor.readers :
       editor' = [editor EXCEPT !.readers = editor.readers \ { r },
                                !.lastEvent = [kind |-> "error", files |-> r.files]]
  /\ UNCHANGED exceptEditor

\* Validate button
Validate ==
  /\ editor' = [editor EXCEPT
        !.validationResult = Some([isValid |-> IsBasicallyValidSQL(editor.schemaText)]),
        !.lastEvent = [kind |-> "validate", files |-> << >>]]
  /\ UNCHANGED exceptEditor

\* Process Schema button: processSchema
ProcessSchema ==
  /\ editor' = [editor EXCEPT
        !.schemaColumns = ProcessedColumns(editor.schemaText),
        !.lastEvent = [kind |-> "process", files |-> << >>]]
  /\ UNCHANGED exceptEditor

\* Clear button
ClearSchema ==
  /\ editor' = Replaced(<< >>, [kind |-> "clear", files |-> << >>])
  /\ UNCHANGED exceptEditor

\* Column definitions and table-level clauses of the schema texts.
ColumnItems ==
  { << "id", " ", "INT" >>,
    << "qty", " ", "int" >>,
    << "price", " ", "DECIMAL", "(", "10", ",", "2", ")" >>,
    << "name", " ", "VARCHAR", "(", "50", ")" >> }

ClauseItems ==
  { << "CONSTRAINT", " ", "pk", " ", "PRIMARY", " ", "KEY", " ", "(", "id", ")" >>,
    << "PRIMARY", " ", "KEY", " ", "(", "id", ",", "name", ")" >>,
    << "PRIMARY", " ", "KEY", " ", "(", "id", ",", " ", "name", " ", ")" >>,
    << "FOREIGN", " ", "KEY", " ", "(", "id", ")", " ", "REFERENCES", " ", "u",
       " ", "(", "id", ")" >>,
    << "INDEX", " ", "idx", " ", "(", "id", ")" >> }

Items == ColumnItems \cup ClauseItems

ItemLists == UNION { [1..n -> Items] : n \in 1..MaxItems }

RECURSIVE JoinItems(_, _)
\* the items from position k on, separated by a comma and a space
JoinItems(items, k) ==
  IF k > Len(items) THEN << >>
  ELSE IF k = Len(items) THEN items[k]
  ELSE items[k] \o << ",", " " >> \o JoinItems(items, k + 1)

\* CREATE TABLE name (item, item, ...);
CreateTable(name, items) ==
  << "CREATE", " ", "TABLE", " ", name, " ", "(" >> \o JoinItems(items, 1) \o << ")", ";" >>

\* The same statement written with lower-case keywords.
CreateTableLower(name, items) ==
  << "create", " ", "table", " ", name, " ", "(" >> \o JoinItems(items, 1) \o << ")", ";" >>

\* The schema texts processed: one table with up to MaxItems items, and two
\* statements of one column each, the second for the same or another table.
SqlTexts ==
  { CreateTable("t", items) : items \in ItemLists } \cup
  { CreateTable("t", << a >>) \o << "\n" >> \o CreateTableLower(n, << b >>) :
      n \in { "t", "u" }, a \in ColumnItems, b \in ColumnItems }

\* Schema extraction: a schema text has been typed or pasted, then the
\* Validate and Process Schema buttons are used.
InitExtract ==
  /\ InitGeneration /\ currentSchema = CustomersOrders /\ lsData = None
  /\ preview = IdlePreview
  /\ call = NoCall
  /\ InitElsewhere
  /\ \E text \in SqlTexts :
       editor = [IdleEditor EXCEPT !.schemaText = text,
                                   !.lastEvent = [kind |-> "type", files |-> << text >>]]

NextExtract ==
  \/ Validate
  \/ ProcessSchema

SpecExtract == InitExtract /\ [][NextExtract]_vars

\* The texts typed and the contents of the files dropped in SpecEditor.
TypedTexts == { << >>, << "x" >>, CreateTable("t", << << "id", " ", "INT" >> >>) }

FileTexts ==
  { CreateTable("t", << << "name", " ", "VARCHAR", "(", "50", ")" >> >>),
    << "(", ";", ";" >> }

\* acceptedFiles of a drop: no file, one file or two files.
AcceptedFiles == UNION { [1..n -> FileTexts] : n \in 0..2 }

InitEditor ==
  /\ InitGeneration /\ currentSchema = CustomersOrders /\ lsData = None
  /\ preview = IdlePreview
  /\ call = NoCall
  /\ InitElsewhere
  /\ editor = IdleEditor

NextEditor ==
  \/ \E text \in TypedTexts : TypeText(text)
  \/ \E acceptedFiles \in AcceptedFiles : OnDrop(acceptedFiles)
  \/ ReaderLoad
  \/ ReaderError
  \/ Validate
  \/ ProcessSchema
  \/ ClearSchema

SpecEditor == InitEditor /\ [][NextEditor]_vars

\* ------------------------------------------------------- schema editor grid
\* name.replace(/\s+/g, '').toLowerCase() on the names that occur in the
\* model (a value without whitespace and upper-case letters is unchanged).
SqueezeLower(s) ==
  CASE s = "UUID" -> "uuid"
    [] s = "First Name" -> "firstname"
    [] s = "Last Name" -> "lastname"
    [] s = "Email" -> "email"
    [] s = "Timestamp" -> "timestamp"
    [] s = "Sequential Number" -> "sequentialnumber"
    [] s = "Money Amount" -> "moneyamount"
    [] s = "Phone Number" -> "phonenumber"
    [] s = "Company Name" -> "companyname"
    [] s = "Street Address" -> "streetaddress"
    [] s = "Username" -> "username"
    [] s = "Password" -> "password"
    [] s = "Product Code" -> "productcode"
    [] s = "Boolean" -> "boolean"
    [] s = "Foreign Key" -> "foreignkey"
    [] s = "Humidity" -> "humidity"
    [] s = "Temperature" -> "temperature"
    [] s = "Temperature (Celsius String)" -> "temperature(celsiusstring)"
    [] s = "Temperature (Fahrenheit String)" -> "temperature(fahrenheitstring)"
    [] s = "Time Range" -> "timerange"
    [] OTHER -> s

\* value of the <option> rendered for the generator called name
OptionValue(name) == SqueezeLower(name)

\* The generators offered by the select of a column:
\* availableGenerators[`${tableName}.${columnName}`]
AvailableGenerators(column) == GetCompatibleGenerators(column.dataType)

\* onChange of the select of row index: the first option ("Select
\* Generator", value '') or the option of an offered generator.
SelectGenerator(index, value) ==
  /\ index \in 1..Len(editor.schemaColumns)
  /\ editor' = [editor EXCEPT
        !.schemaColumns[index].generator = value,
        !.lastEvent = [kind |-> "select", files |-> << >>]]
  /\ UNCHANGED exceptEditor

\* The values of the options of the select of row index.
OptionValues(index) ==
  { "" } \cup { OptionValue(AvailableGenerators(editor.schemaColumns[index])[k]) :
                  k \in 1..Len(AvailableGenerators(editor.schemaColumns[index])) }

\* onChange of the row count input of the editor
SetEditorRowCount(text) ==
  /\ editor' = [editor EXCEPT !.rowCount = CoerceRowCount(text),
                              !.lastEvent = [kind |-> "rows", files |-> << >>]]
  /\ UNCHANGED exceptEditor

\* schemaColumns.filter(column => !column.generator || column.generator === '')
ColumnsWithoutGenerators(schemaColumns) ==
  SelectSeq(schemaColumns, LAMBDA column : column.generator = "")

\* Variant of ValidateGenerators that accepts a schema as soon as one column
\* has a generator.
ValidateGeneratorsAny(schemaColumns) ==
  schemaColumns = << >> \/ \E k \in 1..Len(schemaColumns) : schemaColumns[k].generator # ""

\* validateGenerators: its return value
ValidateGenerators(schemaColumns) == Len(ColumnsWithoutGenerators(schemaColumns)) = 0

\* The state set by a failing validateGenerators.
Rejected(event) ==
  [editor EXCEPT !.unselectedColumns = ColumnsWithoutGenerators(editor.schemaColumns),
                 !.isValidationModalOpen = TRUE,
                 !.lastEvent = [kind |-> event, files |-> << >>]]

\* col.generator?.replace(/\s+/g, '').toLowerCase() || ''
GeneratorKey(col) == SqueezeLower(col.generator)

RECURSIVE GeneratedColumns(_, _, _)
\* The results Promise.all can resolve to for the columns from position k on:
\* one { tableName, columnName, data } per column.  The set is empty when a
\* generator is not found or throws (the promise rejects).
GeneratedColumns(schemaColumns, k, count) ==
  IF k > Len(schemaColumns) THEN { << >> }
  ELSE LET col == schemaColumns[k]
           generator == RegistryGet(GeneratorKey(col))
           others    == GeneratedColumns(schemaColumns, k + 1, count)
       IN  IF generator = Null \/ others = {} THEN {}
           ELSE { << [tableName |-> col.tableName, columnName |-> col.columnName,
                      data |-> out.values] >> \o rest :
                    out \in { o \in Generate(generator, count) : o.ok },
                    rest \in others }

\* generatedColumns.reduce(...): the columns grouped by table
TableData(generatedColumns) ==
  [t \in { generatedColumns[k].tableName : k \in 1..Len(generatedColumns) } |->
     LET own == SelectSeq(generatedColumns, LAMBDA c : c.tableName = t)
     IN  [k \in 1..Len(own) |-> [columnName |-> own[k].columnName, data |-> own[k].data]]]

\* The generation branch of handleGenerateData can be followed: the row
\* count is within the bound, or every outcome is a rejection.
EditorRowsWithinBound ==
  \/ editor.rowCount <= MaxRows
  \/ \E k \in 1..Len(editor.schemaColumns) :
        RegistryGet(GeneratorKey(editor.schemaColumns[k])) = Null

\* Generate Data button of the editor: handleGenerateData
HandleGenerateData ==
  /\ IF ~ValidateGenerators(editor.schemaColumns)
     THEN editor' = Rejected("generate")
     ELSE IF editor.rowCount > FileThreshold
     THEN editor' = [editor EXCEPT !.isFormatModalOpen = TRUE,
                                   !.lastEvent = [kind |-> "generate", files |-> << >>]]
     ELSE /\ EditorRowsWithinBound
          /\ LET results == GeneratedColumns(editor.schemaColumns, 1, editor.rowCount)
             IN  IF results = {}
                 THEN editor' = [editor EXCEPT
                                   !.lastEvent = [kind |-> "generate", files |-> << >>]]
                 ELSE \E generatedColumns \in results :
                        editor' = [editor EXCEPT
                           !.generatedData = Some(TableData(generatedColumns)),
                           !.lastEvent = [kind |-> "generate", files |-> << >>]]
  /\ UNCHANGED exceptEditor

\* Generate Data button of the editor revision that hands the schema over to
\* the generate page: handleGenerateClick stores 'currentSchema' and
\* navigates; GeneratePage mounts and loads it.
EditorHandleGenerateClick ==
  /\ route = "/schema"
  /\ IF ~ValidateGenerators(editor.schemaColumns)
     THEN /\ editor' = Rejected("navigate")
          /\ UNCHANGED << route, currentSchema, schema >>
     ELSE /\ editor' = [editor EXCEPT !.lastEvent = [kind |-> "navigate", files |-> << >>]]
          /\ currentSchema' = editor.schemaColumns
          /\ route' = "/generate"
          /\ schema' = currentSchema'
  /\ UNCHANGED << lsSettings, lsData, rowCount, tableRowCounts, isConfirmModalOpen,
                  pageData, pageSettings, lastEdit, run >>
  /\ UNCHANGED << preview, call, savedSchemas, navigation, pages, second >>

\* OK and Cancel of the Missing Generator Selections modal
CloseValidationModal ==
  /\ editor.isValidationModalOpen
  /\ editor' = [editor EXCEPT !.isValidationModalOpen = FALSE,
                              !.lastEvent = [kind |-> "ok", files |-> << >>]]
  /\ UNCHANGED exceptEditor

\* Both buttons of the Select Export Format modal
CloseFormatModal ==
  /\ editor.isFormatModalOpen
  /\ editor' = [editor EXCEPT !.isFormatModalOpen = FALSE,
                              !.lastEvent = [kind |-> "format", files |-> << >>]]
  /\ UNCHANGED exceptEditor

\* String.prototype.toLowerCase on a word (the inverse of UpperToken).
LowerToken(tok) ==
  CASE tok = "ID" -> "id"
    [] tok = "NAME" -> "name"
    [] tok = "PRICE" -> "price"
    [] tok = "QTY" -> "qty"
    [] tok = "PRIMARY" -> "primary"
    [] tok = "CONSTRAINT" -> "constraint"
    [] tok = "FOREIGN" -> "foreign"
    [] tok = "INDEX" -> "index"
    [] OTHER -> tok

\* Delete button of a grid row: handleDeleteColumn
HandleDeleteColumn(index) ==
  /\ index \in 1..Len(editor.schemaColumns)
  /\ editor' = [editor EXCEPT
        !.columnToDelete = Some([index |-> index, column |-> editor.schemaColumns[index]]),
        !.isDeleteModalOpen = TRUE,
        !.lastEvent = [kind |-> "delete", files |-> << >>]]
  /\ UNCHANGED exceptEditor

\* newColumns.splice(index, 1)
Splice(columns, index) ==
  [k \in 1..(Len(columns) - (IF index \in 1..Len(columns) THEN 1 ELSE 0)) |->
     IF k < index THEN columns[k] ELSE columns[k + 1]]

\* col.split(/\s+/)[0].replace(/[\[\]"`]/g, ''): the tokens of col up to its
\* first whitespace, without brackets and quotes
ColName(col) == RemoveQuotes(SubSeq(col, 1, SkipNonSpaces(col, 1) - 1))

\* The filter of confirmDelete: a piece is kept unless its first word is,
\* ignoring case, the name of the column.
KeptByDelete(col, column) ==
  [k \in 1..Len(ColName(col)) |-> LowerToken(ColName(col)[k])]
     # << LowerToken(column.columnName) >>

RECURSIVE JoinPieces(_, _)
\* updatedColumns.join(',\n  ') from position k on
JoinPieces(pieces, k) ==
  IF k > Len(pieces) THEN << >>
  ELSE IF k = Len(pieces) THEN pieces[k]
  ELSE pieces[k] \o << ",", "\n", " ", " " >> \o JoinPieces(pieces, k + 1)

\* A table definition of the schema text as confirmDelete rewrites it.
UpdatedTable(tableDefinition, column) ==
  LET tableNameMatch  == TableNameMatch(tableDefinition)
      openParenIndex  == IndexOf(tableDefinition, "(")
      \* lastIndexOf gives -1 when there is no ')', which slice counts from the end
      closeParenIndex == IF LastIndexOf(tableDefinition, ")") = 0
                         THEN Len(tableDefinition)
                         ELSE LastIndexOf(tableDefinition, ")")
      tableName       == SubSeq(tableDefinition, 1, openParenIndex - 1)
      columnsText     == SubSeq(tableDefinition, openParenIndex + 1, closeParenIndex - 1)
      afterColumns    == SubSeq(tableDefinition, closeParenIndex, Len(tableDefinition))
      columns         == [k \in 1..Len(SplitOn(columnsText, ",")) |->
                            Trim(SplitOn(columnsText, ",")[k])]
      updatedColumns  == SelectSeq(columns, LAMBDA col : KeptByDelete(col, column))
  IN  IF tableNameMatch = None \/ tableNameMatch[1] # column.tableName
      THEN << "CREATE", " ", "TABLE", " " >> \o tableDefinition
      ELSE << "CREATE", " ", "TABLE", " " >> \o tableName \o << "(", "\n", " ", " " >>
             \o JoinPieces(updatedColumns, 1) \o afterColumns

RECURSIVE UpdatedTables(_, _, _)
\* tables.map(...).join('') from position k on
UpdatedTables(tables, column, k) ==
  IF k > Len(tables) THEN << >>
  ELSE (IF k = 1 THEN tables[k] ELSE UpdatedTable(tables[k], column))
         \o UpdatedTables(tables, column, k + 1)

\* Delete button of the Confirm Deletion modal: confirmDelete
ConfirmDelete ==
  /\ editor.isDeleteModalOpen
  /\ editor' =
       IF editor.columnToDelete # None
       THEN [editor EXCEPT
               !.schemaColumns = Splice(editor.schemaColumns, editor.columnToDelete[1].index),
               !.schemaText = UpdatedTables(SplitCreateTable(editor.schemaText),
                                            editor.columnToDelete[1].column, 1),
               !.isDeleteModalOpen = FALSE,
               !.columnToDelete = None,
               !.lastEvent = [kind |-> "confirmDelete", files |-> << >>]]
       ELSE [editor EXCEPT !.lastEvent = [kind |-> "confirmDelete", files |-> << >>]]
  /\ UNCHANGED exceptEditor

\* Cancel button of the Confirm Deletion modal
CancelDelete ==
  /\ editor.isDeleteModalOpen
  /\ editor' = [editor EXCEPT !.isDeleteModalOpen = FALSE, !.columnToDelete = None,
                              !.lastEvent = [kind |-> "cancelDelete", files |-> << >>]]
  /\ UNCHANGED exceptEditor

\* ------------------------------------------------------------ saved schemas
\* Save Schema button
OpenSaveModal ==
  /\ editor' = [editor EXCEPT !.isModalOpen = TRUE,
                              !.lastEvent = [kind |-> "openSave", files |-> << >>]]
  /\ UNCHANGED exceptEditor

\* Cancel button of the Save Schema modal
CloseSaveModal ==
  /\ editor.isModalOpen
  /\ editor' = [editor EXCEPT !.isModalOpen = FALSE,
                              !.lastEvent = [kind |-> "closeSave", files |-> << >>]]
  /\ UNCHANGED exceptEditor

\* Variant of SchemasUpdated in which Navigation does not hear the event.
SchemasUpdatedUnheard(nav, stored) == nav

\* window.dispatchEvent(new CustomEvent('schemasUpdated')): the listener of
\* Navigation runs before dispatchEvent returns and reloads the list.
SchemasUpdated(nav, stored) == [nav EXCEPT !.savedSchemas = stored]

\* Variant of IsBlankName that accepts whitespace as a name.
IsBlankNameEmptyOnly(schemaName) == schemaName = None \/ schemaName[1] = << >>

\* !schemaName?.trim()
IsBlankName(schemaName) == schemaName = None \/ Trim(schemaName[1]) = << >>

\* Variant of Saved that keeps only the entry just saved.
SavedAlone(stored, name, entry) == (name :> entry)

\* savedSchemas[schemaName] = entry
Saved(stored, name, entry) == (name :> entry) @@ stored

\* Save button of the Save Schema modal: handleSaveSchema(schemaName), at
\* the time timestamp.  lastEvent records the name given, whether an entry
\* of that name existed, and whether the event was dispatched.
HandleSaveSchema(schemaName, timestamp) ==
  /\ editor.isModalOpen
  /\ IF IsBlankName(schemaName)
     THEN /\ editor' = [editor EXCEPT
                !.lastEvent = [kind |-> "save", files |-> << >>, name |-> schemaName,
                               existed |-> FALSE, dispatched |-> FALSE]]
          /\ UNCHANGED << savedSchemas, navigation >>
     ELSE /\ savedSchemas' = Saved(savedSchemas, schemaName[1],
                                   [sql |-> editor.schemaText, timestamp |-> timestamp,
                                    columns |-> editor.schemaColumns])
          /\ editor' = [editor EXCEPT
                !.isModalOpen = FALSE,
                !.lastEvent = [kind |-> "save", files |-> << >>, name |-> schemaName,
                               existed |-> schemaName[1] \in DOMAIN savedSchemas,
                               dispatched |-> TRUE]]
          /\ navigation' = SchemasUpdated(navigation, savedSchemas')
  /\ UNCHANGED exceptSaved

\* Delete button of a saved schema in Navigation: handleDeleteSchema
HandleDeleteSchema(name) ==
  /\ name \in DOMAIN navigation.savedSchemas
  /\ navigation' = [navigation EXCEPT !.schemaToDelete = Some(name),
                                      !.lastEvent = "choose"]
  /\ UNCHANGED << editor, savedSchemas >>
  /\ UNCHANGED exceptSaved

\* const updatedSchemas = { ...savedSchemas }; delete updatedSchemas[name]
Deleted(schemas, name) == [n \in (DOMAIN schemas) \ { name } |-> schemas[n]]

\* Confirm button of Navigation: confirmDelete
NavigationConfirmDelete ==
  /\ navigation.schemaToDelete # None
  /\ LET updatedSchemas == Deleted(navigation.savedSchemas, navigation.schemaToDelete[1])
     IN  /\ savedSchemas' = updatedSchemas
         /\ navigation' = SchemasUpdated([navigation EXCEPT !.savedSchemas = updatedSchemas,
                                                            !.schemaToDelete = None,
                                                            !.lastEvent = "confirm"],
                                         savedSchemas')
  /\ UNCHANGED editor
  /\ UNCHANGED exceptSaved

\* Cancel button of Navigation
NavigationCancelDelete ==
  /\ navigation.schemaToDelete # None
  /\ navigation' = [navigation EXCEPT !.schemaToDelete = None, !.lastEvent = "cancel"]
  /\ UNCHANGED << editor, savedSchemas >>
  /\ UNCHANGED exceptSaved

\* ------------------------------------------- specifications of the editor
\* The schema page after mounting, with nothing in localStorage.
InitSchemaPage ==
  /\ route = "/schema"
  /\ currentSchema = << >>
  /\ schema = << >>
  /\ lsData = None
  /\ lsSettings = None
  /\ rowCount = DefaultRowCount
  /\ tableRowCounts = NoOverrides
  /\ isConfirmModalOpen = FALSE
  /\ pageData = None
  /\ pageSettings = None
  /\ lastEdit = None
  /\ run = IdleRun
  /\ preview = IdlePreview
  /\ call = NoCall
  /\ InitElsewhere

\* The modals cover the page: while one is open only its buttons respond.
NoModalOpen ==
  /\ ~editor.isModalOpen
  /\ ~editor.isValidationModalOpen
  /\ ~editor.isDeleteModalOpen
  /\ ~editor.isFormatModalOpen

\* The schema texts of the grid: one or two columns of known types, a column
\* of a type no generator lists, and two tables.
GridTexts ==
  { CreateTable("t", << << "id", " ", "INT" >> >>),
    CreateTable("t", << << "id", " ", "INT" >>, << "name", " ", "VARCHAR", "(", "50", ")" >> >>),
    CreateTable("t", << << "id", " ", "x" >> >>),
    CreateTable("t", << << "id", " ", "INT" >> >>) \o << "\n" >>
      \o CreateTableLower("u", << << "id", " ", "INT" >> >>) }

\* The texts typed into the row count input of the editor: 2 and 2000.
EditorRowTexts == { << "2" >>, << "2", "0", "0", "0" >> }

InitGrid ==
  /\ InitSchemaPage
  /\ \E text \in GridTexts :
       editor = [IdleEditor EXCEPT !.schemaText = text,
                                   !.lastEvent = [kind |-> "type", files |-> << text >>]]

\* The grid of the schema page: generators are selected and Generate Data
\* is clicked, in either revision of the editor.
NextGrid ==
  \/ (route = "/schema" /\ NoModalOpen /\ ProcessSchema)
  \/ (route = "/schema" /\ NoModalOpen /\
        \E index \in 1..Len(editor.schemaColumns) :
           \E value \in OptionValues(index) : SelectGenerator(index, value))
  \/ (route = "/schema" /\ NoModalOpen /\
        \E text \in EditorRowTexts : SetEditorRowCount(text))
  \/ (route = "/schema" /\ NoModalOpen /\ HandleGenerateData)
  \/ (NoModalOpen /\ EditorHandleGenerateClick)
  \/ CloseValidationModal
  \/ CloseFormatModal

SpecGrid == InitGrid /\ [][NextGrid]_vars

\* Deleting grid columns: a schema text has been typed, it is processed and
\* columns are deleted.
InitDelete ==
  /\ InitSchemaPage
  /\ \E text \in SqlTexts :
       editor = [IdleEditor EXCEPT !.schemaText = text,
                                   !.lastEvent = [kind |-> "type", files |-> << text >>]]

NextDelete ==
  \/ (NoModalOpen /\ ProcessSchema)
  \/ (NoModalOpen /\ \E index \in 1..Len(editor.schemaColumns) : HandleDeleteColumn(index))
  \/ ConfirmDelete
  \/ CancelDelete

SpecDelete == InitDelete /\ [][NextDelete]_vars

\* Saving schemas and deleting saved schemas.
SaveNames ==
  { None, Some(<< >>), Some(<< " " >>), Some(<< "a" >>), Some(<< "b" >>),
    Some(<< " ", "a" >>) }

Timestamps == { "t1", "t2" }

SavedTexts ==
  { << "x" >>,
    CreateTable("t", << << "id", " ", "INT" >> >>) }

InitSaved ==
  /\ InitSchemaPage
  /\ editor = IdleEditor

NextSaved ==
  \/ (NoModalOpen /\ \E text \in SavedTexts : TypeText(text))
  \/ (NoModalOpen /\ ProcessSchema)
  \/ (NoModalOpen /\ OpenSaveModal)
  \/ CloseSaveModal
  \/ \E schemaName \in SaveNames, timestamp \in Timestamps :
        HandleSaveSchema(schemaName, timestamp)
  \/ (NoModalOpen /\ \E name \in DOMAIN navigation.savedSchemas : HandleDeleteSchema(name))
  \/ (NoModalOpen /\ NavigationConfirmDelete)
  \/ (NoModalOpen /\ NavigationCancelDelete)

SpecSaved == InitSaved /\ [][NextSaved]_vars

\* ================================================================== claims
\* The columns of the run in progress, and helpers to talk about its dataset.
RunCols == 1..Len(run.columns)

\* The first pass calls a generator for the column: a generator is assigned,
\* it is not the Foreign Key generator and the registry resolves it.
Generating(col) == ~SkippedByFirstPass(col) /\ RegistryGet(col.generator) # Null

\* A non-foreign-key column with a generator assigned.
Independent(col) == col.generator # "" /\ col.generator # "Foreign Key"

\* Cell r of column i in dataset d.
Cell(d, i, r) == d[run.columns[i].tableName].rows[r][ColIndex(run.columns, i)]

\* Rows of the table of column i in dataset d.
RowsOf(d, i) == 1..Len(d[run.columns[i].tableName].rows)

\* The cells of the column(s) named rt.rc in dataset d.
ColumnCells(d, rt, rc) ==
  UNION { { Cell(d, j, r) : r \in RowsOf(d, j) } :
            j \in { k \in RunCols : /\ run.columns[k].tableName = rt
                                    /\ run.columns[k].columnName = rc } }

\* ---- C1
\* C1: no candidate-key lookup of the second pass happens before the first
\* pass has finished for every table: once a lookup has happened, every table
\* has been set up, every column the first pass generates has its values in
\* the candidate-key index, and every such generator call has been made.
C1_PhaseOrder ==
  run.lookups > 0 =>
    /\ \A i \in RunCols :
         /\ run.columns[i].tableName \in DOMAIN run.generatedData
         /\ Generating(run.columns[i]) =>
              ColumnKey(run.columns[i].tableName, run.columns[i].columnName)
                \in DOMAIN run.candidateKeyValues
    /\ run.invoked = Cardinality({ i \in RunCols : Generating(run.columns[i]) })

\* A lookup by a foreign-key column of the first table has found the values
\* of a column of the table visited last.
C1_Witness ==
  /\ run.lookups > 0
  /\ run.pc = "phase2"
  /\ HandledBySecondPass(run.columns[1])
  /\ ReferencedKey(run.columns[1]) = "customers.id"
  /\ "customers.id" \in DOMAIN run.candidateKeyValues

\* ---- C2
\* C2: in the dataset stored by a successful run, every cell of a Foreign Key
\* column with reference R is one of the values of column R in that dataset.
C2_ForeignKeyValues ==
  run.pc = "done" =>
    /\ lsData = Some(run.generatedData)
    /\ \A i \in RunCols :
         HandledBySecondPass(run.columns[i]) =>
           \A r \in RowsOf(lsData[1], i) :
              Cell(lsData[1], i, r) \in
                ColumnCells(lsData[1], run.columns[i].referencedTable,
                            run.columns[i].referencedColumn)

\* Two orders rows draw their customer_id from randomly generated customers.
C2_Witness ==
  /\ run.pc = "done"
  /\ HandledBySecondPass(run.columns[1])
  /\ ReferencedKey(run.columns[1]) = "customers.id"
  /\ run.columns[2].generator = "Boolean"
  /\ Len(lsData[1]["orders"].rows) = 2
  /\ Len(lsData[1]["customers"].rows) = 1

\* ---- C3
\* A Foreign Key column whose reference is not the key of any independent column.
HasUnresolvedReference(columns) ==
  \E i \in 1..Len(columns) :
     /\ columns[i].generator = "Foreign Key"
     /\ ~ \E j \in 1..Len(columns) :
            /\ Independent(columns[j])
            /\ columns[j].tableName = columns[i].referencedTable
            /\ columns[j].columnName = columns[i].referencedColumn

\* C3: a run over a schema with an unresolved reference fails before any
\* generation work: no generator has been invoked, and the run never succeeds.
C3_FailsBeforeGeneration ==
  (run.pc # "idle" /\ HasUnresolvedReference(run.columns)) =>
     (run.invoked = 0 /\ run.pc # "done")

\* ---- C4
\* C4: when a run has failed, localStorage 'generatedData', the displayed
\* dataset and the page are what they were when the run started.
C4_FailedRunStoresNothing ==
  run.pc = "failed" =>
    /\ lsData = run.before.lsData
    /\ pageData = run.before.pageData
    /\ route = run.before.route

\* A second-pass lookup failed after generators had produced values, with a
\* dataset of an earlier session in localStorage.
C4_Witness ==
  /\ run.pc = "failed"
  /\ run.lookups > 0
  /\ run.invoked > 0
  /\ run.before.lsData = Some(PriorData)

\* ---- C5
\* C5: a run over a schema with a column whose generator name (non-empty, not
\* Foreign Key) matches no catalog entry never produces a dataset.
C5_UnknownGeneratorAborts ==
  run.pc = "done" =>
    \A i \in RunCols :
       Independent(run.columns[i]) => RegistryGet(run.columns[i].generator) # Null

\* ---- C6
\* C6: a successful run leaves no cell of a Foreign Key column unfilled.
C6_ForeignKeyNeverNull ==
  run.pc = "done" =>
    \A i \in RunCols :
       run.columns[i].generator = "Foreign Key" =>
          \A r \in RowsOf(run.generatedData, i) : Cell(run.generatedData, i, r) # Null

\* ---- C7
\* The values interpolated into the error message contain x.
Mentions(error, x) == \E k \in 1..Len(error) : error[k] = x

\* C7: the error of a failed second-pass lookup carries the failing column's
\* tableName and columnName and the reference target.
C7_ErrorNamesColumn ==
  (run.pc = "failed" /\ run.lookups > 0) =>
    LET col == run.columns[VisitOrder(run.columns)[run.pos]]
    IN  /\ Mentions(run.error[1], col.tableName)
        /\ Mentions(run.error[1], col.columnName)
        /\ Mentions(run.error[1], col.referencedTable)
        /\ Mentions(run.error[1], col.referencedColumn)

\* ---- C8
\* C8: in the dataset of a successful run each table has as many rows as its
\* override when that is present and positive, and as the default otherwise.
C8_RowCounts ==
  run.pc = "done" =>
    /\ DOMAIN lsData[1] = { run.columns[i].tableName : i \in RunCols }
    /\ \A t \in DOMAIN lsData[1] :
         Len(lsData[1][t].rows) =
           IF run.tableRowCounts[t] # None /\ run.tableRowCounts[t][1] > 0
           THEN run.tableRowCounts[t][1]
           ELSE run.rowCount

\* orders overridden to 2 rows while customers keeps the default of 1.
C8_Witness ==
  /\ run.pc = "done"
  /\ run.kind = "confirm"
  /\ rowCount = 1
  /\ tableRowCounts["orders"] = Some(2)
  /\ tableRowCounts["customers"] = None
  /\ Len(lsData[1]["orders"].rows) = 2
  /\ Len(lsData[1]["customers"].rows) = 1

\* ---- C9
\* C9: after any edits the default row count is an integer >= 1, every
\* override is null or an integer > 0, and the row count a run would use for
\* any table is at least 1.
C9_RowCountsPositive ==
  /\ rowCount \in Nat /\ rowCount >= 1
  /\ \A t \in AllTables :
       tableRowCounts[t] = None \/
       (tableRowCounts[t][1] \in Nat /\ tableRowCounts[t][1] > 0)
  /\ \A t \in AllTables : RowsToGenerate(tableRowCounts, rowCount, t) >= 1

\* A negative number was typed into the default row count input.
C9_Witness ==
  /\ lastEdit = Some(<< "rowCount", "negative" >>)
  /\ rowCount = 1

\* ---- C10
\* C10: in the dataset of a successful run every table lists its columns in
\* schema order, every row has one cell per listed column, and the cells of a
\* column the first pass generated are the values its generator returned, in
\* order.
C10_DatasetShape ==
  run.pc = "done" =>
    \A i \in RunCols :
       LET col   == run.columns[i]
           table == lsData[1][col.tableName]
           n     == Cardinality({ j \in RunCols : run.columns[j].tableName = col.tableName })
       IN  /\ Len(table.columns) = n
           /\ table.columns[ColIndex(run.columns, i)] = col.columnName
           /\ \A r \in 1..Len(table.rows) : Len(table.rows[r]) = n
           /\ Generating(col) =>
                \A r \in 1..Len(table.rows) :
                   table.rows[r][ColIndex(run.columns, i)] =
                     run.candidateKeyValues[ColumnKey(col.tableName, col.columnName)][r]

\* A two-row orders table whose foreign-key column precedes a generated one.
C10_Witness ==
  /\ run.pc = "done"
  /\ HandledBySecondPass(run.columns[1])
  /\ Generating(run.columns[3])
  /\ lsData[1]["orders"].columns = << "customer_id", "id" >>
  /\ Len(lsData[1]["orders"].rows) = 2

\* ---- C11
\* The column has no generator assigned.
NoGenerator(col) == col.generator = ""

\* The columns the first pass of the run has visited so far.
VisitedByFirstPass ==
  LET order == VisitOrder(run.columns)
      upTo  == CASE run.pc = "phase1" -> run.pos - 1
                 [] run.pc = "idle"   -> 0
                 [] OTHER             -> Len(order)
  IN  { order[k] : k \in 1..upTo }

\* C11: a column with no generator is tolerated by the sample preview and by
\* a generation run: no generator is invoked for it, it has no entry in
\* either candidate-key index, and no preview error or run failure occurs at it.
C11_NoGeneratorTolerated ==
  /\ \A i \in 1..Len(schema) :
       NoGenerator(schema[i]) =>
         /\ i \notin preview.invoked
         /\ i \notin preview.failed
         /\ ColumnKey(schema[i].tableName, schema[i].columnName)
              \notin DOMAIN preview.candidateKeyValues
  /\ \A i \in RunCols :
       NoGenerator(run.columns[i]) =>
         /\ ColumnKey(run.columns[i].tableName, run.columns[i].columnName)
              \notin DOMAIN run.candidateKeyValues
         /\ run.pc = "failed" => VisitOrder(run.columns)[run.pos] # i
  /\ run.invoked <=
       Cardinality({ i \in VisitedByFirstPass : ~NoGenerator(run.columns[i]) })

\* The preview and a run have both finished over a schema whose first column
\* has no generator, with generators called for the two other columns.
C11_Witness ==
  /\ preview.pc = "done"
  /\ run.pc = "done"
  /\ NoGenerator(run.columns[1])
  /\ Cardinality(preview.invoked) = 2
  /\ run.invoked = 2
  /\ \A r \in RowsOf(lsData[1], 1) : Cell(lsData[1], 1, r) = Null

\* ---- C12
\* The last call was getCompatibleGenerators(q).
CalledCompatible == call.fn = "getCompatibleGenerators" /\ call.done

\* Upper-cased and trimmed query of the last call, and its base type.
QueryType == Trim(TextToUpperCase(call.arg[1]))
Base(x) == Trim(BeforeFirst(x, "("))

\* Entry e of a compatible-type list matches the query of the last call.
Matching(e) == e = QueryType \/ e = Base(QueryType) \/ Base(e) = Base(QueryType)

\* Generator i has at least one matching entry.
HasMatch(i) == \E k \in 1..Len(CompatibleTypes[i]) : Matching(CompatibleTypes[i][k])

\* C12: when no generator has a matching entry, getCompatibleGenerators
\* returns all registered generators in registration order.
C12_FallbackToCatalog ==
  (CalledCompatible /\ ~ \E i \in 1..Len(Catalog) : HasMatch(i)) =>
     /\ call.out.ok
     /\ call.out.values = Catalog
     /\ Len(call.out.values) = Len(Catalog)

\* An unknown type, BLOB(1), got the whole catalog.
C12_Witness ==
  /\ CalledCompatible
  /\ call.arg = Some(<< "BLOB", "(", "1" >>)
  /\ Len(call.out.values) = Len(Catalog)

\* ---- C13
\* C13: when the query is an entry of generator g's compatible types, the
\* result contains g.
C13_EntryFindsItsGenerator ==
  CalledCompatible =>
    \A i \in 1..Len(Catalog) :
       (\E k \in 1..Len(CompatibleTypes[i]) : CompatibleTypes[i][k] = call.arg[1]) =>
          \E n \in 1..Len(call.out.values) : call.out.values[n] = Catalog[i]

\* The Boolean entry NUMBER(1,0) was queried; Boolean is in the result.
C13_Witness ==
  /\ CalledCompatible
  /\ call.arg = Some(<< "NUMBER", "(", "1", ",", "0", ")" >>)
  /\ \E n \in 1..Len(call.out.values) : call.out.values[n] = "Boolean"

\* ---- C14
\* C14: when at least one generator has a matching entry, the result is
\* exactly the generators with a matching entry, in registration order,
\* without duplicates.
C14_ExactlyTheMatching ==
  (CalledCompatible /\ \E i \in 1..Len(Catalog) : HasMatch(i)) =>
     LET result == call.out.values
     IN  /\ \A i \in 1..Len(Catalog) :
              HasMatch(i) <=> \E n \in 1..Len(result) : result[n] = Catalog[i]
         /\ \A n \in 1..Len(result) : \E i \in 1..Len(Catalog) : result[n] = Catalog[i]
         /\ \A m, n \in 1..Len(result) :
              m < n => \E i, j \in 1..Len(Catalog) :
                          i < j /\ result[m] = Catalog[i] /\ result[n] = Catalog[j]

\* A lower-case, padded, parameterised type, " number(1", matched Boolean
\* through the base type of its entry NUMBER(1) but not UUID.
C14_Witness ==
  /\ CalledCompatible
  /\ call.arg = Some(<< " ", "number", "(" >>)
  /\ \E n \in 1..Len(call.out.values) : call.out.values[n] = "Boolean"
  /\ ~ \E n \in 1..Len(call.out.values) : call.out.values[n] = "UUID"

\* ---- C15
\* The last call was booleanGenerator.generate with trueWeight w.
CalledBooleanWith(w) ==
  /\ call.fn = "booleanGenerator.generate" /\ call.done
  /\ call.arg = Some([trueWeight |-> Some(w)])

\* C15: with trueWeight 0 every value is false and with trueWeight 1 (four
\* quarters) every value is true, and count values are returned.
C15_BooleanBoundaries ==
  /\ CalledBooleanWith(0) =>
       /\ Len(call.out.values) = call.count
       /\ \A i \in 1..Len(call.out.values) : call.out.values[i] = FALSE
  /\ CalledBooleanWith(4) =>
       /\ Len(call.out.values) = call.count
       /\ \A i \in 1..Len(call.out.values) : call.out.values[i] = TRUE

\* ---- C16
\* The last call was foreignKeyGenerator.generate.
CalledForeignKey == call.fn = "foreignKeyGenerator.generate" /\ call.done

\* referencedValues of the last call's options, None when absent.
GivenValues == IF call.arg = None THEN None ELSE call.arg[1].referencedValues

\* C16: the call throws when referencedValues is absent or empty, and
\* otherwise returns count values, each a member of referencedValues.
C16_ForeignKeyFailsClosed ==
  CalledForeignKey =>
    IF GivenValues = None \/ GivenValues = Some(<< >>)
    THEN ~call.out.ok
    ELSE /\ call.out.ok
         /\ Len(call.out.values) = call.count
         /\ \A i \in 1..Len(call.out.values) :
              \E k \in 1..Len(GivenValues[1]) : call.out.values[i] = GivenValues[1][k]

\* Two values were drawn from a list of two, and differ.
C16_Witness ==
  /\ CalledForeignKey
  /\ call.count = 2
  /\ GivenValues = Some(<< "a", "b" >>)
  /\ call.out.ok
  /\ call.out.values[1] # call.out.values[2]

\* ---- C17
\* processSchema has just run on the schema text.
Extracted == editor.lastEvent.kind = "process"

\* The column definitions among items, in order.
Definitions(items) == SelectSeq(items, LAMBDA item : item \in ColumnItems)

\* Name and type as written in a column definition "name type".
WrittenName(item) == item[1]
WrittenType(item) == SubSeq(item, 3, Len(item))

\* C17: for a table made of column definitions only, extraction yields one
\* descriptor per definition, in order, each with the complete type written
\* (in upper case), parameters in parentheses included.
C17_ParameterisedTypeKept ==
  Extracted =>
    \A items \in ItemLists :
       (/\ editor.schemaText = CreateTable("t", items)
        /\ \A k \in 1..Len(items) : items[k] \in ColumnItems) =>
          /\ Len(editor.schemaColumns) = Len(items)
          /\ \A k \in 1..Len(items) :
               /\ editor.schemaColumns[k].columnName = WrittenName(items[k])
               /\ editor.schemaColumns[k].dataType = TextToUpperCase(WrittenType(items[k]))

\* ---- C18
\* C18: for a table of column definitions and table-level clauses, the
\* descriptors extracted are, by name and in order, those of the column
\* definitions: no clause contributes a descriptor.
C18_ClausesYieldNoColumn ==
  Extracted =>
    \A items \in ItemLists :
       editor.schemaText = CreateTable("t", items) =>
          /\ Len(editor.schemaColumns) = Len(Definitions(items))
          /\ \A k \in 1..Len(editor.schemaColumns) :
               /\ editor.schemaColumns[k].tableName = "t"
               /\ editor.schemaColumns[k].columnName = WrittenName(Definitions(items)[k])

\* ---- C19
\* C19: no two descriptors of an extracted column list share both table name
\* and column name.
C19_ColumnsUnique ==
  Extracted =>
    \A i, j \in 1..Len(editor.schemaColumns) :
       i # j => \/ editor.schemaColumns[i].tableName # editor.schemaColumns[j].tableName
                \/ editor.schemaColumns[i].columnName # editor.schemaColumns[j].columnName

\* ---- C20
\* C20: right after the text area was edited or a dropped file finished
\* loading, the schema text is the new content (the first file of the drop),
\* the validation result is null and the column list is empty.
C20_ReplacedTextResets ==
  editor.lastEvent.kind \in { "type", "load" } =>
    /\ editor.schemaText = editor.lastEvent.files[1]
    /\ editor.validationResult = None
    /\ editor.schemaColumns = << >>

\* A drop of two different files finished loading: the text is the content
\* of the first one.
C20_Witness ==
  /\ editor.lastEvent.kind = "load"
  /\ Len(editor.lastEvent.files) = 2
  /\ editor.lastEvent.files[1] # editor.lastEvent.files[2]
  /\ editor.schemaText = editor.lastEvent.files[1]
  /\ editor.validationResult = None
  /\ editor.schemaColumns = << >>

\* ---- C21
\* The step is a click on Generate Data, in either revision of the editor.
ClickedGenerate == editor'.lastEvent.kind \in { "generate", "navigate" }

\* The columns of the grid without a generator.
Unselected == { k \in 1..Len(editor.schemaColumns) : editor.schemaColumns[k].generator = "" }

\* C21: a click on Generate Data with a column that has no generator
\* generates nothing and does not navigate, opens the validation modal and
\* lists exactly the columns without a generator; confirming the modal
\* closes it.
C21_GenerateNeedsGenerators ==
  [][/\ (ClickedGenerate /\ Unselected # {}) =>
          /\ editor'.generatedData = editor.generatedData
          /\ route' = route /\ currentSchema' = currentSchema
          /\ editor'.isValidationModalOpen
          /\ { editor'.unselectedColumns[k] : k \in 1..Len(editor'.unselectedColumns) }
               = { editor.schemaColumns[k] : k \in Unselected }
          /\ Len(editor'.unselectedColumns) = Cardinality(Unselected)
     /\ (ClickedGenerate /\ (editor'.generatedData # editor.generatedData \/ route' # route)) =>
          /\ Unselected = {}
          /\ ~editor'.isValidationModalOpen
     /\ (editor'.lastEvent.kind = "ok") => ~editor'.isValidationModalOpen
    ]_vars

\* Generate Data was clicked with two columns of which one has a generator:
\* the modal lists the other one.
C21_Witness ==
  /\ editor.lastEvent.kind = "generate"
  /\ editor.isValidationModalOpen
  /\ Len(editor.schemaColumns) = 2
  /\ Len(editor.unselectedColumns) = 1
  /\ editor.generatedData = None

\* ---- C22
\* The step is a call of handleSaveSchema.
SaveStep == editor'.lastEvent.kind = "save" /\ editor' # editor

\* The name given is absent, empty or made of whitespace only.
BlankName(schemaName) ==
  schemaName = None \/ \A k \in 1..Len(schemaName[1]) : IsSpace(schemaName[1][k])

\* C22: handleSaveSchema with an absent, empty or whitespace-only name leaves
\* localStorage 'savedSchemas' as it is and dispatches no event (Navigation
\* is left alone).
C22_BlankNameIsNoOp ==
  [][(SaveStep /\ BlankName(editor'.lastEvent.name)) =>
        /\ savedSchemas' = savedSchemas
        /\ ~editor'.lastEvent.dispatched
        /\ navigation' = navigation
        /\ editor'.schemaText = editor.schemaText
        /\ editor'.schemaColumns = editor.schemaColumns]_vars

\* Save was clicked with a whitespace-only name while a schema was saved.
C22_Witness ==
  /\ editor.lastEvent.kind = "save"
  /\ editor.lastEvent.name = Some(<< " " >>)
  /\ ~editor.lastEvent.dispatched
  /\ DOMAIN savedSchemas = { << "a" >> }

\* ---- C23
\* C23: handleSaveSchema with a non-blank name n stores the current schema
\* text and column list under n, whether or not an entry of that name
\* existed, and leaves the entries of all other names as they were.
C23_SaveSetsOnlyItsName ==
  [][(SaveStep /\ ~BlankName(editor'.lastEvent.name)) =>
        LET n == editor'.lastEvent.name[1]
        IN  /\ DOMAIN savedSchemas' = DOMAIN savedSchemas \cup { n }
            /\ savedSchemas'[n].sql = editor.schemaText
            /\ savedSchemas'[n].columns = editor.schemaColumns
            /\ \A m \in DOMAIN savedSchemas \ { n } : savedSchemas'[m] = savedSchemas[m]]_vars

\* The entry of name a was replaced by another text while b was saved too.
C23_Witness ==
  /\ editor.lastEvent.kind = "save"
  /\ editor.lastEvent.name = Some(<< "a" >>)
  /\ editor.lastEvent.existed
  /\ DOMAIN savedSchemas = { << "a" >>, << "b" >> }
  /\ savedSchemas[<< "a" >>].sql # savedSchemas[<< "b" >>].sql
  /\ savedSchemas[<< "a" >>].columns # << >>

\* ---- C30
\* The step is a click on Confirm, or on Cancel, in Navigation.
NavigationStep(kind) ==
  /\ navigation'.lastEvent = kind /\ navigation.schemaToDelete # None
  /\ navigation'.schemaToDelete = None /\ editor' = editor

\* C30: after every save and every confirmed deletion the list held by
\* Navigation equals localStorage 'savedSchemas'; a confirmed deletion removes
\* the schema chosen and nothing else, and a cancelled one changes nothing.
C30_NavigationFollowsStorage ==
  /\ [](navigation.savedSchemas = savedSchemas)
  /\ [][/\ NavigationStep("confirm") =>
             /\ DOMAIN savedSchemas' = DOMAIN savedSchemas \ { navigation.schemaToDelete[1] }
             /\ \A n \in DOMAIN savedSchemas' : savedSchemas'[n] = savedSchemas[n]
        /\ NavigationStep("cancel") =>
             /\ savedSchemas' = savedSchemas
             /\ navigation'.savedSchemas = navigation.savedSchemas
       ]_vars

\* Of two saved schemas one was deleted: the other is still listed and stored.
C30_Witness ==
  /\ navigation.lastEvent = "confirm"
  /\ DOMAIN savedSchemas = { << "b" >> }
  /\ DOMAIN navigation.savedSchemas = { << "b" >> }
  /\ editor.lastEvent.kind = "save"
  /\ editor.lastEvent.name = Some(<< "b" >>)

\* ---- C24
\* Every Foreign Key column refers to a column for which the first pass
\* calls a generator, wherever that column is listed, and no other column is
\* given the Foreign Key generator under another spelling of its name.
ReferencesGenerated(columns) ==
  \A i \in 1..Len(columns) :
     IF columns[i].generator = "Foreign Key"
     THEN /\ HandledBySecondPass(columns[i])
          /\ \E j \in 1..Len(columns) :
               /\ Generating(columns[j])
               /\ columns[j].tableName = columns[i].referencedTable
               /\ columns[j].columnName = columns[i].referencedColumn
     ELSE RegistryGet(columns[i].generator) # "Foreign Key"

\* C24: a run whose foreign-key columns all refer to generated columns does
\* not fail, whether the referenced column belongs to a table visited later
\* or to the table of the foreign-key column itself, and the finished run
\* has filled each foreign-key cell with a value of the referenced column.
C24_ReferencePositionFree ==
  (run.pc # "idle" /\ run.columns[1].generator = "Foreign Key"
     /\ ReferencesGenerated(run.columns)) =>
     /\ run.pc # "failed"
     /\ run.pc = "done" =>
          \A i \in RunCols :
             run.columns[i].generator = "Foreign Key" =>
               \A r \in RowsOf(run.generatedData, i) :
                  /\ Cell(run.generatedData, i, r) # Null
                  /\ Cell(run.generatedData, i, r) \in
                       ColumnCells(run.generatedData, run.columns[i].referencedTable,
                                   run.columns[i].referencedColumn)

\* orders.customer_id refers to orders.id, a column of its own table that is
\* listed after it, and the run has finished with two orders.
C24_Witness ==
  /\ run.pc = "done"
  /\ run.columns[1].generator = "Foreign Key"
  /\ ReferencedKey(run.columns[1]) = "orders.id"
  /\ Len(run.generatedData["orders"].rows) = 2
  /\ run.generatedData["orders"].rows[1][1] \in { "1", "2" }

\* ---- C25
\* The catalog generator whose option holds the value stored in a column.
Selected(column) ==
  CHOOSE g \in { Catalog[k] : k \in 1..Len(Catalog) } : OptionValue(g) = column.generator

\* C25: once the editor has handed the schema over to the generate page,
\* the generator stored in each column resolves in the registry to the
\* catalog entry that was selected for it, and a column for which Foreign Key
\* was selected is one the first pass leaves to the second.
C25_SelectedGeneratorResolves ==
  (route = "/generate" /\ editor.lastEvent.kind = "navigate") =>
     \A k \in 1..Len(schema) :
        /\ RegistryGet(schema[k].generator) = Selected(schema[k])
        /\ Selected(schema[k]) = "Foreign Key" =>
             (schema[k].generator = "Foreign Key" /\ SkippedByFirstPass(schema[k]))

\* ---- C26
\* C26: whenever no handler is running and localStorage holds both
\* 'generationSettings' and 'generatedData', each table of the stored data
\* has the row count the stored settings resolve for it.
C26_StoredDataMatchesSettings ==
  (~Running /\ lsSettings # None /\ lsData # None) =>
     \A t \in DOMAIN lsData[1] :
        Len(lsData[1][t].rows) =
          RowsToGenerate(lsSettings[1].tableRowCounts, lsSettings[1].defaultRowCount, t)

\* ---- C27
\* The tables of the schema of the running invocation.
RunTables == { run.columns[i].tableName : i \in RunCols }

\* C27: with two overlapping invocations of handleConfirmGenerate, whatever
\* is stored under 'generatedData' is the complete dataset of one invocation
\* that finished (every table of the schema, built by that invocation
\* alone), and every cell of a Foreign Key column in it is one of the values
\* of the referenced column of that same stored dataset.
C27_OverlapNeverMixes ==
  lsData # None =>
    /\ \E r \in { run, second } :
         /\ r.pc = "done"
         /\ lsData = Some(r.generatedData)
    /\ DOMAIN lsData[1] = RunTables
    /\ \A i \in RunCols :
         HandledBySecondPass(run.columns[i]) =>
           \A r \in RowsOf(lsData[1], i) :
              Cell(lsData[1], i, r) \in
                ColumnCells(lsData[1], run.columns[i].referencedTable,
                            run.columns[i].referencedColumn)

\* Both invocations have finished, with different random customers, and the
\* stored dataset holds a foreign key into customers.
C27_Witness ==
  /\ run.pc = "done"
  /\ second.pc = "done"
  /\ run.generatedData # second.generatedData
  /\ lsData # None
  /\ HandledBySecondPass(run.columns[1])
  /\ ReferencedKey(run.columns[1]) = "customers.id"

\* ---- C29
\* Table, name and type of the columns of a list, in order.
Described(columns) ==
  [k \in 1..Len(columns) |-> [tableName  |-> columns[k].tableName,
                              columnName |-> columns[k].columnName,
                              dataType   |-> columns[k].dataType]]

\* C29: when the grid shows the columns of the schema text and the deletion
\* of a grid column is confirmed, processSchema on the updated schema text
\* yields the previous column list without that column: the same tables,
\* names and types, in the same order.
C29_DeleteKeepsTextAndGrid ==
  [][ ( /\ editor'.lastEvent.kind = "confirmDelete"
        /\ editor.columnToDelete # None
        /\ Described(ProcessedColumns(editor.schemaText)) = Described(editor.schemaColumns) )
      => Described(ProcessedColumns(editor'.schemaText))
           = Described(Splice(editor.schemaColumns, editor.columnToDelete[1].index)) ]_vars

\* ---- C28
\* C28: on the results page, the current page index of every displayed
\* table is a valid page, 0 <= p < max(1, ceil(rows / rowsPerPage)), and the
\* displayed page of a table that has rows is not empty.
C28_CurrentPageValid ==
  (route = "/generated" /\ pageData # None) =>
    \A tableName \in DOMAIN pageData[1] :
       LET rows  == TableRows(tableName)
           count == IF GetPageCount(Len(rows)) > 1 THEN GetPageCount(Len(rows)) ELSE 1
       IN  /\ pages.currentPage[tableName] >= 0
           /\ pages.currentPage[tableName] < count
           /\ Len(rows) > 0 => GetCurrentPageRows(rows, tableName) # << >>

====
